---- MODULE Spec2Model ----
(***************************************************************************)
(* Model of the load-balancer configuration translation engine:            *)
(*   backend_api/lb_translator_base.py  (validation, translate, deploy)    *)
(*   backend_api/nginx_translator.py, f5_translator.py, avi_translator.py  *)
(*   backend_api/common_lb_schema.py    (create_standard_config)           *)
(*   backend_api/translator_factory.py  (get_translator)                   *)
(*   backend_api/main.py                (list_vips)                        *)
(*   backend_api/mongodb_config_storage.py (prepare_promotion, _migration) *)
(*   mock_tcpwave/main.py               (the mock IPAM service)            *)
(* A Python dict is a function whose DOMAIN is the set of keys present;    *)
(* Python None is the string None; an Optional value is a sequence of      *)
(* length 0 (None) or 1.                                                   *)
(***************************************************************************)
EXTENDS Integers, Sequences, FiniteSets, TLC

VARIABLES
    cfg,        \* standard_config handed to translate_config / deploy
    kind,       \* which translator class self is: "NGINX", "F5", "AVI"
    pc,         \* position of the running call
    caller,     \* who called translate_config: "none", "direct", "deploy", "avi_hook"
    verr,       \* outcome of the last _validate_config call (NoError or the ValueError)
    artifact,   \* vendor_config returned by the last _generate_vendor_config: <<>> or <<a>>
    genCalls,   \* number of _generate_vendor_config invocations so far
    dirExists,  \* file system: output_dir exists
    sslDir,     \* file system: output_dir/ssl with placeholder certificates exists
    file,       \* file system: the artifact file, [exists, content]
    config_path,\* local of deploy: <<>> until line 147 computed it, then <<path>>
    result,     \* <<>> or <<dict>>: what deploy returned to its caller
    hookResult, \* <<>> or <<dict>>: deploy_result returned by _deploy_vendor_config
    failure,    \* the failure point that was hit in this call, "none" if none
    fs0,        \* the file system as it was when the call began
    written,    \* the with block writing config_path has completed in this call
    vip_config, \* create_standard_config argument: the VIP intent
    servers,    \* create_standard_config argument: the server list
    lb_type,    \* placement_decision['lb_type'], the label given to get_translator
    shared_file,\* the bytes of one config_path that concurrent deploy calls write
    calls,      \* the concurrent deploy calls: position, text, buffer, file offset
    returned,   \* the <<configuration, artifact>> pairs translate_config returned, in order
    ncalls,     \* number of calls on this translator that have completed
    vips_collection,   \* backend API: the documents of the vips collection
    list_request,      \* backend API: <<>> or <<request>>, the last list_vips request
    list_response,     \* backend API: <<>> or <<VIPs>>, what list_vips returned to it
    configs,           \* config storage: the lb_configurations documents, by vip_id
    heap,              \* config storage: the dict objects of the caller, by address
    prepared,          \* config storage: <<>> or <<result>> of prepare_promotion / _migration
    ip_pools,          \* mock IPAM: per subnet the available and the used addresses
    mock_ip_allocations,  \* mock IPAM: ip_address -> [fqdn, subnet]
    mock_dns_records      \* mock IPAM: fqdn -> ip_address

vars == <<cfg, kind, pc, caller, verr, artifact, genCalls, dirExists, sslDir,
          file, config_path, result, hookResult, failure, fs0, written,
          vip_config, servers, lb_type, shared_file, calls, returned, ncalls,
          vips_collection, list_request, list_response, configs, heap, prepared,
          ip_pools, mock_ip_allocations, mock_dns_records>>

\* the arguments of the IR builder and of the selector
builderVars == <<vip_config, servers, lb_type>>

\* the state of concurrent deploy calls on one path
concVars == <<shared_file, calls>>

\* what earlier calls on the same translator object returned
historyVars == <<returned, ncalls>>

\* the backend API's list_vips endpoint
apiVars == <<vips_collection, list_request, list_response>>

\* the configuration storage with its promotion and migration managers
storageVars == <<configs, heap, prepared>>

\* the mock IPAM service
ipamVars == <<ip_pools, mock_ip_allocations, mock_dns_records>>

\* the services around the translators
serviceVars == <<apiVars, storageVars, ipamVars>>

\* the state of one translate_config / deploy call
deployVars == <<caller, verr, artifact, genCalls, dirExists, sslDir, file,
                config_path, result, hookResult, failure, fs0, written>>

-----------------------------------------------------------------------------
(* Python helpers *)

None == "None"

EmptyDict == [k \in {} |-> None]

\* d.get(k, default)
Get(d, k, default) == IF k \in DOMAIN d THEN d[k] ELSE default

\* truth value of an id-like value (a string or None): None and '' are falsy
TruthyId(v) == v \notin {None, ""}

\* truth value of a dict: non-empty
TruthyDict(d) == DOMAIN d # {}

\* [x.get('id') for x in xs]
IdsOf(xs) == [i \in 1..Len(xs) |-> Get(xs[i], "id", None)]

\* v in list
InList(v, xs) == \E i \in 1..Len(xs) : xs[i] = v

\* first key of the list `keys` that is not a key of d, None if all are
FirstMissing(keys, d) ==
    LET miss == {i \in 1..Len(keys) : keys[i] \notin DOMAIN d}
    IN  IF miss = {} THEN None
        ELSE keys[CHOOSE i \in miss : \A j \in miss : i <= j]

-----------------------------------------------------------------------------
(* Closed vocabulary, common_lb_schema.py *)

LBProtocol == {"http", "https", "tcp", "udp"}

ClientAuthType == {"none", "optional", "required"}

LBAlgorithm == {"round_robin", "least_connections", "ip_hash", "least_requests",
                "weighted_round_robin", "fastest_response"}

PersistenceType == {"none", "source_ip", "cookie", "app_cookie", "http_header",
                    "tls_session_id", "custom"}

-----------------------------------------------------------------------------
(* LBTranslatorBase._validate_config *)

NoError == <<>>

required_sections == <<"metadata", "virtual_server", "pools">>

\* faulty variant: pool_id is not among the required fields
required_vs_fields_without_pool_id == <<"id", "name", "ip_address", "port", "protocol">>

required_vs_fields == <<"id", "name", "ip_address", "port", "protocol", "pool_id">>

\* faulty variant: https without ssl.enabled is let through
ValidateSsl_https_rule_dropped(config, vs) ==
    LET ssl     == Get(vs, "ssl", EmptyDict)
        cert_id == Get(ssl, "certificate_id", None)
        cert_ids == IdsOf(Get(config, "certificates", <<>>))
    IN  IF Get(vs, "protocol", None) = "https" /\ Get(ssl, "enabled", FALSE)
        THEN IF ~TruthyId(cert_id)
             THEN <<"Certificate ID must be specified for SSL">>
             ELSE IF ~InList(cert_id, cert_ids)
             THEN <<"Referenced certificate_id not found in certificates", cert_id>>
             ELSE NoError
        ELSE NoError

\* lines 80-94: the SSL checks, made only when the protocol is https
ValidateSsl(config, vs) ==
    IF Get(vs, "protocol", None) = "https"
    THEN LET ssl     == Get(vs, "ssl", EmptyDict)
             cert_id == Get(ssl, "certificate_id", None)
             cert_ids == IdsOf(Get(config, "certificates", <<>>))
         IN  IF ~Get(ssl, "enabled", FALSE)
             THEN <<"SSL must be enabled for HTTPS protocol">>
             ELSE IF ~TruthyId(cert_id)
             THEN <<"Certificate ID must be specified for SSL">>
             ELSE IF ~InList(cert_id, cert_ids)
             THEN <<"Referenced certificate_id not found in certificates", cert_id>>
             ELSE NoError
    ELSE NoError

\* faulty variant: the CA reference is checked for presence only, not resolved
ValidateMtls_unresolved_accepted(config, vs) ==
    LET mtls == Get(vs, "mtls", EmptyDict)
    IN  IF Get(mtls, "enabled", FALSE)
           /\ ~TruthyId(Get(mtls, "client_ca_cert_id", None))
        THEN <<"Client CA certificate ID must be specified for mTLS">>
        ELSE NoError

\* lines 96-106: the mTLS checks
ValidateMtls(config, vs) ==
    LET mtls == Get(vs, "mtls", EmptyDict)
        client_ca_cert_id == Get(mtls, "client_ca_cert_id", None)
        cert_ids == IdsOf(Get(config, "certificates", <<>>))
    IN  IF Get(mtls, "enabled", FALSE)
        THEN IF ~TruthyId(client_ca_cert_id)
             THEN <<"Client CA certificate ID must be specified for mTLS">>
             ELSE IF ~InList(client_ca_cert_id, cert_ids)
             THEN <<"Referenced client_ca_cert_id not found in certificates",
                    client_ca_cert_id>>
             ELSE NoError
        ELSE NoError

\* lines 74-78: the referenced pool exists
ValidatePoolRef(vs, pools) ==
    LET pool_id  == Get(vs, "pool_id", None)
        pool_ids == IdsOf(pools)
    IN  IF ~InList(pool_id, pool_ids)
        THEN <<"Referenced pool_id not found in pools", pool_id>>
        ELSE NoError

\* The ValueError _validate_config raises on config, NoError when it returns.
_validate_config(config) ==
    LET sec == FirstMissing(required_sections, config)
    IN  IF sec # None THEN <<"Missing required section", sec>>
        ELSE
        LET vs    == config["virtual_server"]
            fld   == FirstMissing(required_vs_fields, vs)
            pools == config["pools"]
        IN  IF fld # None THEN <<"Missing required virtual server field", fld>>
            ELSE IF Len(pools) = 0 THEN <<"At least one pool must be defined">>
            ELSE IF ValidatePoolRef(vs, pools) # NoError THEN ValidatePoolRef(vs, pools)
            ELSE IF ValidateSsl(config, vs) # NoError THEN ValidateSsl(config, vs)
            ELSE ValidateMtls(config, vs)

-----------------------------------------------------------------------------
(* Lookups of LBTranslatorBase: linear scan, first match wins *)

\* _get_pool_by_id / _get_certificate_by_id: <<>> is Python's None
FindById(xs, id) ==
    LET hit == {i \in 1..Len(xs) : Get(xs[i], "id", None) = id}
    IN  IF hit = {} THEN <<>>
        ELSE <<xs[CHOOSE i \in hit : \A j \in hit : i <= j]>>

\* faulty variant: the scan keeps going, the last match wins
_get_pool_by_id_last_match(pools, pool_id) ==
    LET hit == {i \in 1..Len(pools) : Get(pools[i], "id", None) = pool_id}
    IN  IF hit = {} THEN <<>>
        ELSE <<pools[CHOOSE i \in hit : \A j \in hit : i >= j]>>

_get_pool_by_id(pools, pool_id) ==
    FindById(pools, pool_id)

_get_certificate_by_id(certificates, cert_id) == FindById(certificates, cert_id)

-----------------------------------------------------------------------------
(* String helpers.  Strings are atomic in the model; str.replace is the   *)
(* table of its values on the names the model's configurations use.       *)

\* s.replace('-', '_')
DashToUnderscore(s) ==
    CASE s = "pool-web" -> "pool_web"
      [] s = "pool-dup" -> "pool_dup"
      [] s = "pool-other" -> "pool_other"
      [] s = "vs-app"   -> "vs_app"
      [] s = "cert-app" -> "cert_app"
      [] s = "ca-cert-app" -> "ca_cert_app"
      [] OTHER -> s

\* s.replace('vs-', '')
StripVsPrefix(s) == IF s = "vs-app" THEN "app" ELSE s

\* a sequence when the condition holds, nothing otherwise
When(c, xs) == IF c THEN xs ELSE <<>>

\* [f(x) for x in xs] is written [i \in 1..Len(xs) |-> ...] in place

-----------------------------------------------------------------------------
(* NginxTranslator._generate_vendor_config, lines 39-243: the text, one    *)
(* record per emitted line (d is the directive).  The fixed mime, logging   *)
(* and general-settings lines are kept as single markers.                   *)

NginxServerLine(member) ==
    [d |-> "server",
     addr |-> Get(member, "ip_address", None),
     port |-> Get(member, "port", None),
     weight |-> Get(member, "weight", 1),
     backup |-> Get(member, "backup", FALSE),
     max_conns |-> IF Get(member, "max_connections", 0) > 0
                   THEN <<Get(member, "max_connections", 0)>> ELSE <<>>]

NginxLbLine(pool) ==
    LET algorithm == Get(pool, "algorithm", "round_robin")
    IN  IF algorithm = "least_connections" THEN [d |-> "least_conn"]
        ELSE IF algorithm = "ip_hash" THEN [d |-> "ip_hash"]
        ELSE [d |-> "# Using default round robin"]

NginxUpstream(pool) ==
    LET persistence == Get(pool, "persistence", EmptyDict)
        members == Get(pool, "members", <<>>)
    IN  <<[d |-> "upstream", name |-> Get(pool, "name", "backend")],
          NginxLbLine(pool)>>
        \o When(Get(persistence, "type", "none") = "cookie",
                <<[d |-> "sticky cookie",
                   name |-> Get(persistence, "cookie_name", "SERVERID"),
                   expires |-> Get(persistence, "timeout", 3600),
                   path |-> Get(persistence, "cookie_path", "/")]>>)
        \o [i \in 1..Len(members) |-> NginxServerLine(members[i])]
        \o <<[d |-> "}"]>>

NginxSsl(virtual_server, certificates) ==
    LET ssl  == Get(virtual_server, "ssl", EmptyDict)
        mtls == Get(virtual_server, "mtls", EmptyDict)
        cert == _get_certificate_by_id(certificates, Get(ssl, "certificate_id", ""))
        ca_cert == _get_certificate_by_id(certificates, Get(mtls, "client_ca_cert_id", ""))
        client_auth_type == Get(mtls, "client_auth_type", "none")
    IN  When(cert # <<>> /\ TruthyDict(Head(cert)),
             <<[d |-> "ssl_certificate", name |-> Get(Head(cert), "name", "server")],
               [d |-> "ssl_certificate_key", name |-> Get(Head(cert), "name", "server")]>>)
        \o <<[d |-> "ssl_protocols",
              protocols |-> Get(ssl, "protocols", <<"TLSv1.2", "TLSv1.3">>)]>>
        \o When(Get(ssl, "ciphers", "") # "",
                <<[d |-> "ssl_ciphers", ciphers |-> Get(ssl, "ciphers", "")]>>
                \o When(Get(ssl, "prefer_server_ciphers", TRUE),
                        <<[d |-> "ssl_prefer_server_ciphers on"]>>))
        \o When(Get(ssl, "session_cache", TRUE),
                <<[d |-> "ssl_session_cache shared:SSL:10m"],
                  [d |-> "ssl_session_timeout", minutes |-> Get(ssl, "session_timeout", 300)]>>)
        \o When(Get(mtls, "enabled", FALSE),
                When(client_auth_type = "required", <<[d |-> "ssl_verify_client on"]>>)
                \o When(client_auth_type = "optional", <<[d |-> "ssl_verify_client optional"]>>)
                \o When(ca_cert # <<>> /\ TruthyDict(Head(ca_cert)),
                        <<[d |-> "ssl_client_certificate",
                           name |-> Get(Head(ca_cert), "name", "ca")]>>)
                \o <<[d |-> "ssl_verify_depth", depth |-> Get(mtls, "verify_depth", 1)]>>
                \o When(Get(mtls, "crl_enabled", FALSE), <<[d |-> "ssl_crl"]>>))

NginxLocation(virtual_server, pool, ssl_enabled) ==
    LET http_settings == Get(virtual_server, "http", EmptyDict)
        conn_limit == Get(virtual_server, "connection_limit", 0)
    IN  IF Get(http_settings, "redirect_http_to_https", FALSE) /\ ~ssl_enabled
        THEN <<[d |-> "return 301 https://$host$request_uri"]>>
        ELSE <<[d |-> "location /"],
               [d |-> "proxy_pass", name |-> Get(pool, "name", "backend")]>>
             \o When(Get(http_settings, "x_forwarded_for", TRUE),
                     <<[d |-> "proxy_set_header X-Real-IP"],
                       [d |-> "proxy_set_header X-Forwarded-For"]>>)
             \o When(Get(http_settings, "x_forwarded_proto", TRUE),
                     <<[d |-> "proxy_set_header X-Forwarded-Proto"]>>)
             \o <<[d |-> "proxy_set_header Host"]>>
             \o When(conn_limit > 0, <<[d |-> "limit_conn", limit |-> conn_limit]>>)
             \o When(ssl_enabled /\ Get(http_settings, "hsts_enabled", FALSE),
                     <<[d |-> "add_header Strict-Transport-Security",
                        max_age |-> Get(http_settings, "hsts_max_age", 31536000),
                        subdomains |-> Get(http_settings, "hsts_include_subdomains", FALSE),
                        preload |-> Get(http_settings, "hsts_preload", FALSE)]>>)
             \o <<[d |-> "}"]>>

\* The text NGINX generation returns once the pool was found.
NginxConfig(metadata, virtual_server, pool, certificates) ==
    LET ssl_enabled == Get(Get(virtual_server, "ssl", EmptyDict), "enabled", FALSE)
        port == Get(virtual_server, "port", 80)
    IN  <<[d |-> "# NGINX Load Balancer Configuration",
           name |-> Get(virtual_server, "name", ""),
           environment |-> Get(metadata, "environment", ""),
           datacenter |-> Get(metadata, "datacenter", ""),
           created_by |-> Get(metadata, "created_by", "LBaaS")],
          [d |-> "events"], [d |-> "http"], [d |-> "mime types"],
          [d |-> "log_format"], [d |-> "sendfile"]>>
        \o NginxUpstream(pool)
        \o <<[d |-> "server {"],
             [d |-> "listen", port |-> port, ssl |-> ssl_enabled]>>
        \o When(ssl_enabled, NginxSsl(virtual_server, certificates))
        \o <<[d |-> "server_name",
              name |-> StripVsPrefix(Get(virtual_server, "name", ""))]>>
        \o NginxLocation(virtual_server, pool, ssl_enabled)
        \o <<[d |-> "}"], [d |-> "}"]>>

-----------------------------------------------------------------------------
(* F5Translator._generate_vendor_config, lines 39-216: the JSON document   *)
(* as a record; a key the code adds conditionally is a key of the record    *)
(* only when it was added.                                                  *)

\* faulty variant: a table without the http_header row
F5Translator_translate_persistence_type_without_http_header(persistence_type) ==
    CASE persistence_type = "source_ip"      -> "source_addr"
      [] persistence_type = "cookie"         -> "cookie"
      [] persistence_type = "app_cookie"     -> "app_cookie"
      [] persistence_type = "tls_session_id" -> "ssl"
      [] persistence_type = "custom"         -> "universal"
      [] OTHER -> "none"

F5Translator_translate_persistence_type(persistence_type) ==
    CASE persistence_type = "source_ip"      -> "source_addr"
      [] persistence_type = "cookie"         -> "cookie"
      [] persistence_type = "app_cookie"     -> "app_cookie"
      [] persistence_type = "http_header"    -> "hash"
      [] persistence_type = "tls_session_id" -> "ssl"
      [] persistence_type = "custom"         -> "universal"
      [] OTHER -> "none"

F5Member(member) ==
    [name |-> Get(member, "name", Get(member, "ip_address", None)),
     address |-> Get(member, "ip_address", None),
     port |-> Get(member, "port", 80),
     weight |-> Get(member, "weight", 1),
     monitor |-> "http",
     state |-> IF Get(member, "enabled", TRUE) THEN "enabled" ELSE "disabled"]
    @@ (IF Get(member, "connection_limit", 0) > 0
        THEN "connectionLimit" :> Get(member, "connection_limit", 0) ELSE EmptyDict)
    @@ (IF Get(member, "backup", FALSE) THEN "priorityGroup" :> 1 ELSE EmptyDict)

F5Algorithm(pool) ==
    LET algorithm == Get(pool, "algorithm", "round_robin")
    IN  IF algorithm = "least_connections" THEN "least-connections-member"
        ELSE IF algorithm = "fastest_response" THEN "fastest-app-response"
        ELSE IF algorithm = "weighted_round_robin" THEN "weighted-round-robin"
        ELSE IF algorithm = "ip_hash" THEN "ip-hash"
        ELSE "round-robin"

F5Pool(pool) ==
    LET members == Get(pool, "members", <<>>)
        monitor == Get(pool, "monitor", EmptyDict)
        persistence == Get(pool, "persistence", EmptyDict)
        persistence_type == Get(persistence, "type", "none")
    IN  [name |-> DashToUnderscore(Get(pool, "name", "pool")),
         members |-> [i \in 1..Len(members) |-> F5Member(members[i])],
         monitor |-> [type |-> Get(monitor, "type", "http"),
                      send |-> Get(monitor, "http_path", "/"),
                      recv |-> Get(monitor, "expected_text", ""),
                      interval |-> Get(monitor, "interval", 5),
                      timeout |-> Get(monitor, "timeout", 16),
                      retries |-> Get(monitor, "retries", 3)],
         load_balancing_mode |-> F5Algorithm(pool)]
        @@ (IF persistence_type # "none"
            THEN "persistence" :>
                 [type |-> F5Translator_translate_persistence_type(persistence_type),
                  cookie_name |-> IF persistence_type \in {"cookie", "app_cookie"}
                                  THEN Get(persistence, "cookie_name", "SERVERID")
                                  ELSE None,
                  timeout |-> Get(persistence, "timeout", 3600)]
            ELSE EmptyDict)

\* lines 142-175: the "ssl" entry of the virtual server, <<>> when none is set
F5Ssl(virtual_server, certificates) ==
    LET ssl  == Get(virtual_server, "ssl", EmptyDict)
        mtls == Get(virtual_server, "mtls", EmptyDict)
        cert == _get_certificate_by_id(certificates, Get(ssl, "certificate_id", ""))
        client_auth_type == Get(mtls, "client_auth_type", "none")
        ca_cert == _get_certificate_by_id(certificates, Get(mtls, "client_ca_cert_id", ""))
    IN  IF Get(ssl, "enabled", FALSE) /\ cert # <<>> /\ TruthyDict(Head(cert))
        THEN <<[name |-> DashToUnderscore(Get(Head(cert), "name", "server")),
                ciphers |-> Get(ssl, "ciphers", "DEFAULT"),
                protocols |-> Get(ssl, "protocols", <<"TLSv1.2", "TLSv1.3">>)]
               @@ (IF Get(mtls, "enabled", FALSE) /\ client_auth_type # "none"
                      /\ ca_cert # <<>> /\ TruthyDict(Head(ca_cert))
                   THEN [client_auth |-> client_auth_type,
                         ca_file |-> DashToUnderscore(Get(Head(ca_cert), "name", "ca")),
                         verify_depth |-> Get(mtls, "verify_depth", 1)]
                        @@ (IF Get(mtls, "crl_enabled", FALSE)
                            THEN "crl_file" :>
                                 DashToUnderscore(Get(Head(ca_cert), "name", "ca"))
                            ELSE EmptyDict)
                   ELSE EmptyDict)>>
        ELSE <<>>

F5Http(virtual_server, ssl_enabled) ==
    LET http_settings == Get(virtual_server, "http", EmptyDict)
    IN  IF TruthyDict(http_settings)
        THEN "http" :>
             ((IF Get(http_settings, "x_forwarded_for", TRUE)
               THEN "insert_xforwarded_for" :> TRUE ELSE EmptyDict)
              @@ (IF Get(http_settings, "redirect_http_to_https", FALSE)
                  THEN "redirect_http_to_https" :> TRUE ELSE EmptyDict)
              @@ (IF ssl_enabled /\ Get(http_settings, "hsts_enabled", FALSE)
                  THEN [hsts_enabled |-> TRUE,
                        hsts_max_age |-> Get(http_settings, "hsts_max_age", 31536000),
                        hsts_include_subdomains |->
                            Get(http_settings, "hsts_include_subdomains", FALSE),
                        hsts_preload |-> Get(http_settings, "hsts_preload", FALSE)]
                  ELSE EmptyDict))
        ELSE EmptyDict

F5VirtualServer(virtual_server, pool, certificates) ==
    LET ssl_enabled  == Get(Get(virtual_server, "ssl", EmptyDict), "enabled", FALSE)
        mtls_enabled == Get(Get(virtual_server, "mtls", EmptyDict), "enabled", FALSE)
        conn_limit   == Get(virtual_server, "connection_limit", 0)
        conn_rate_limit == Get(virtual_server, "connection_rate_limit", 0)
        f5_ssl == F5Ssl(virtual_server, certificates)
    IN  [name |-> DashToUnderscore(Get(virtual_server, "name", "vs")),
         destination |-> <<Get(virtual_server, "ip_address", None),
                           Get(virtual_server, "port", 80)>>,
         pool |-> DashToUnderscore(Get(pool, "name", "pool")),
         profiles |-> <<"http", "tcp">>
                      \o When(ssl_enabled, <<"clientssl">> \o When(mtls_enabled, <<"serverssl">>)),
         translate_address |-> TRUE,
         translate_port |-> TRUE]
        @@ (IF conn_limit > 0 THEN "connection_limit" :> conn_limit ELSE EmptyDict)
        @@ (IF conn_rate_limit > 0 THEN "rate_limit" :> conn_rate_limit ELSE EmptyDict)
        @@ (IF f5_ssl # <<>> THEN "ssl" :> Head(f5_ssl) ELSE EmptyDict)
        @@ F5Http(virtual_server, ssl_enabled)

\* faulty variant: the declaration id carries a serial number the translator
\* object counts up
F5Config_numbered(metadata, virtual_server, pool, certificates) ==
    [class |-> "ADC",
     schemaVersion |-> "3.0.0",
     id |-> <<"LBaaS", genCalls>>,
     label |-> Get(virtual_server, "name", ""),
     remark |-> Get(metadata, "created_by", "LBaaS"),
     pools |-> <<>>,
     virtualServers |-> <<>>]

\* The document F5 generation returns once the pool was found.
F5Config(metadata, virtual_server, pool, certificates) ==
    [class |-> "ADC",
     schemaVersion |-> "3.0.0",
     id |-> <<"LBaaS", Get(metadata, "environment", None),
              Get(metadata, "datacenter", None)>>,
     label |-> Get(virtual_server, "name", ""),
     remark |-> Get(metadata, "created_by", "LBaaS"),
     pools |-> <<F5Pool(pool)>>,
     virtualServers |-> <<F5VirtualServer(virtual_server, pool, certificates)>>]

-----------------------------------------------------------------------------
(* AviTranslator._generate_vendor_config, lines 39-265 *)

\* faulty variant: a table without the least_requests row
_translate_lb_algorithm_without_least_requests(algorithm) ==
    CASE algorithm = "round_robin"          -> "LB_ALGORITHM_ROUND_ROBIN"
      [] algorithm = "least_connections"    -> "LB_ALGORITHM_LEAST_CONNECTIONS"
      [] algorithm = "ip_hash"              -> "LB_ALGORITHM_CONSISTENT_HASH"
      [] algorithm = "fastest_response"     -> "LB_ALGORITHM_FASTEST_RESPONSE"
      [] algorithm = "weighted_round_robin" -> "LB_ALGORITHM_ROUND_ROBIN"
      [] OTHER -> "LB_ALGORITHM_ROUND_ROBIN"

_translate_lb_algorithm(algorithm) ==
    CASE algorithm = "round_robin"          -> "LB_ALGORITHM_ROUND_ROBIN"
      [] algorithm = "least_connections"    -> "LB_ALGORITHM_LEAST_CONNECTIONS"
      [] algorithm = "ip_hash"              -> "LB_ALGORITHM_CONSISTENT_HASH"
      [] algorithm = "least_requests"       -> "LB_ALGORITHM_FEWEST_SERVERS"
      [] algorithm = "fastest_response"     -> "LB_ALGORITHM_FASTEST_RESPONSE"
      [] algorithm = "weighted_round_robin" -> "LB_ALGORITHM_ROUND_ROBIN"
      [] OTHER -> "LB_ALGORITHM_ROUND_ROBIN"

AviTranslator_translate_persistence_type(persistence_type) ==
    CASE persistence_type = "source_ip"      -> "PERSISTENCE_TYPE_CLIENT_IP_ADDRESS"
      [] persistence_type = "cookie"         -> "PERSISTENCE_TYPE_HTTP_COOKIE"
      [] persistence_type = "app_cookie"     -> "PERSISTENCE_TYPE_APP_COOKIE"
      [] persistence_type = "http_header"    -> "PERSISTENCE_TYPE_CUSTOM_HTTP_HEADER"
      [] persistence_type = "tls_session_id" -> "PERSISTENCE_TYPE_TLS"
      [] persistence_type = "custom"         -> "PERSISTENCE_TYPE_CUSTOM_SERVER"
      [] OTHER -> "PERSISTENCE_TYPE_NONE"

\* faulty variant: every server gets ratio 1 whatever the member's weight
AviServer_unit_ratio(member) ==
    [ip |-> [addr |-> Get(member, "ip_address", None), type |-> "V4"],
     port |-> Get(member, "port", 80),
     hostname |-> Get(member, "name", ""),
     ratio |-> 1,
     enabled |-> Get(member, "enabled", TRUE)]

AviServer(member) ==
    [ip |-> [addr |-> Get(member, "ip_address", None), type |-> "V4"],
     port |-> Get(member, "port", 80),
     hostname |-> Get(member, "name", ""),
     ratio |-> Get(member, "weight", 1),
     enabled |-> Get(member, "enabled", TRUE)]
    @@ (IF Get(member, "connection_limit", 0) > 0
        THEN "connection_limit" :> Get(member, "connection_limit", 0) ELSE EmptyDict)

AviPersistence(pool) ==
    LET persistence == Get(pool, "persistence", EmptyDict)
        persistence_type == Get(persistence, "type", "none")
    IN  IF persistence_type # "none"
        THEN "persistence_profile" :>
             ([type |-> AviTranslator_translate_persistence_type(persistence_type)]
              @@ (IF persistence_type \in {"cookie", "app_cookie"}
                  THEN [cookie_name |-> Get(persistence, "cookie_name", "SERVERID"),
                        timeout |-> Get(persistence, "timeout", 3600)]
                  ELSE IF persistence_type = "http_header"
                  THEN [http_header_name |-> Get(persistence, "header_name", "X-Persistence")]
                  ELSE EmptyDict))
        ELSE EmptyDict

AviPool(pool) ==
    LET members == Get(pool, "members", <<>>)
        monitor == Get(pool, "monitor", EmptyDict)
    IN  [name |-> Get(pool, "name", "pool"),
         servers |-> [i \in 1..Len(members) |-> AviServer(members[i])],
         lb_algorithm |-> _translate_lb_algorithm(Get(pool, "algorithm", "round_robin")),
         health_monitor |-> [type |-> Get(monitor, "type", "HTTP"),
                             http_method |-> Get(monitor, "http_method", "GET"),
                             http_request |-> Get(monitor, "http_path", "/"),
                             http_response_code |-> Get(monitor, "expected_codes", "200"),
                             monitor_port |-> Get(monitor, "port", 0),
                             receive_timeout |-> Get(monitor, "timeout", 15),
                             failed_checks |-> Get(monitor, "retries", 3),
                             send_interval |-> Get(monitor, "interval", 5)],
         enabled |-> TRUE]
        @@ AviPersistence(pool)

\* lines 122-171: ssl_profile, <<>> when it stays None
AviSslProfile(virtual_server, certificates) ==
    LET ssl  == Get(virtual_server, "ssl", EmptyDict)
        mtls == Get(virtual_server, "mtls", EmptyDict)
        cert == _get_certificate_by_id(certificates, Get(ssl, "certificate_id", ""))
        client_auth_type == Get(mtls, "client_auth_type", "none")
        ca_cert == _get_certificate_by_id(certificates, Get(mtls, "client_ca_cert_id", ""))
        protocols == Get(ssl, "protocols", <<"TLSv1.2", "TLSv1.3">>)
    IN  IF Get(ssl, "enabled", FALSE) /\ cert # <<>> /\ TruthyDict(Head(cert))
        THEN <<[name |-> Get(Head(cert), "name", "server"),
                certificate_refs |-> <<Get(Head(cert), "name", "server")>>,
                enabled |-> TRUE,
                accepted_versions |->
                    SelectSeq(protocols, LAMBDA q : q \in {"TLSv1.2", "TLSv1.3"})]
               @@ (IF Get(ssl, "ciphers", "") # ""
                   THEN "cipher_suites" :> Get(ssl, "ciphers", "") ELSE EmptyDict)
               @@ (IF Get(mtls, "enabled", FALSE) /\ client_auth_type # "none"
                      /\ ca_cert # <<>> /\ TruthyDict(Head(ca_cert))
                   THEN [client_auth |-> TRUE,
                         ca_certs |-> <<Get(Head(ca_cert), "name", "ca")>>,
                         client_auth_require |-> (client_auth_type = "required"),
                         validate_depth |-> Get(mtls, "verify_depth", 1)]
                   ELSE EmptyDict)>>
        ELSE <<>>

AviHttpProfile(virtual_server) ==
    LET http_settings == Get(virtual_server, "http", EmptyDict)
        ssl_enabled == Get(Get(virtual_server, "ssl", EmptyDict), "enabled", FALSE)
    IN  [name |-> Get(virtual_server, "name", "vs"),
         type |-> "APPLICATION_PROFILE_TYPE_HTTP",
         http_profile |->
            [x_forwarded_proto_enabled |-> Get(http_settings, "x_forwarded_proto", TRUE),
             x_forwarded_for_enabled |-> Get(http_settings, "x_forwarded_for", TRUE)]
            @@ (IF ssl_enabled /\ Get(http_settings, "hsts_enabled", FALSE)
                THEN [hsts_enabled |-> TRUE,
                      hsts_max_age |-> Get(http_settings, "hsts_max_age", 31536000)]
                     @@ (IF Get(http_settings, "hsts_include_subdomains", FALSE)
                         THEN "hsts_subdomains_enabled" :> TRUE ELSE EmptyDict)
                     @@ (IF Get(http_settings, "hsts_preload", FALSE)
                         THEN "hsts_preload_enabled" :> TRUE ELSE EmptyDict)
                ELSE EmptyDict)]

AviVirtualService(virtual_server, pool, certificates) ==
    LET ssl_enabled == Get(Get(virtual_server, "ssl", EmptyDict), "enabled", FALSE)
        http_settings == Get(virtual_server, "http", EmptyDict)
        ssl_profile == AviSslProfile(virtual_server, certificates)
        conn_limit == Get(virtual_server, "connection_limit", 0)
    IN  [name |-> Get(virtual_server, "name", "vs"),
         enabled |-> Get(virtual_server, "enabled", TRUE),
         services |-> <<[port |-> Get(virtual_server, "port", 80),
                         enable_ssl |-> ssl_enabled]>>,
         vip |-> <<[addr |-> Get(virtual_server, "ip_address", None), type |-> "V4"]>>,
         pool_ref |-> Get(pool, "name", "pool"),
         application_profile_ref |-> Get(virtual_server, "name", "vs")]
        @@ (IF ssl_profile # <<>>
            THEN [ssl_profile_ref |-> Head(ssl_profile).name,
                  ssl_key_and_certificate_refs |-> Head(ssl_profile).certificate_refs]
            ELSE EmptyDict)
        @@ (IF conn_limit > 0 THEN "connection_limit" :> conn_limit ELSE EmptyDict)
        @@ (IF Get(http_settings, "redirect_http_to_https", FALSE)
            THEN "http_policies" :> <<"redirect-http-to-https">> ELSE EmptyDict)

\* The document AVI generation returns once the pool was found.
AviConfig(metadata, virtual_server, pool, certificates) ==
    [pools |-> <<AviPool(pool)>>,
     virtual_services |-> <<AviVirtualService(virtual_server, pool, certificates)>>,
     application_profiles |-> <<AviHttpProfile(virtual_server)>>,
     tenant |-> Get(metadata, "environment", "admin"),
     version |-> "20.1.1",
     description |-> <<Get(metadata, "created_by", "LBaaS"),
                       Get(metadata, "environment", None),
                       Get(metadata, "datacenter", None)>>]
    @@ (IF AviSslProfile(virtual_server, certificates) # <<>>
        THEN "ssl_profiles" :> AviSslProfile(virtual_server, certificates)
        ELSE EmptyDict)

-----------------------------------------------------------------------------
(* _generate_vendor_config of the three translators: lines 34-37 of each   *)
(* look the pool up and raise ValueError when `not pool`; otherwise the     *)
(* vendor text or document is returned.                                     *)

\* `if not pool`: pool is None or an empty dict
PoolIsFalsy(pool) == pool = <<>> \/ ~TruthyDict(Head(pool))

_generate_vendor_config(k, metadata, virtual_server, pools, certificates) ==
    LET pool == _get_pool_by_id(pools, Get(virtual_server, "pool_id", ""))
    IN  IF PoolIsFalsy(pool)
        THEN [raised |-> TRUE,
              error |-> <<"Pool with ID not found", Get(virtual_server, "pool_id", None)>>]
        ELSE [raised |-> FALSE,
              value |-> CASE k = "NGINX" ->
                               NginxConfig(metadata, virtual_server, Head(pool), certificates)
                          [] k = "F5" ->
                               F5Config(metadata, virtual_server, Head(pool), certificates)
                          [] k = "AVI" ->
                               AviConfig(metadata, virtual_server, Head(pool), certificates)]

-----------------------------------------------------------------------------
(* CommonLBSchema.create_standard_config (common_lb_schema.py lines 73-285) *)
(* and TranslatorFactory.get_translator (translator_factory.py lines 19-40).*)
(* The FQDN is a sequence of characters, so that str.replace and the        *)
(* f-strings that derive identifiers from it are computed; the other        *)
(* strings are atomic.                                                      *)

\* s.replace(a, b) for single characters a and b
Replace(s, a, b) == [i \in 1..Len(s) |-> IF s[i] = a THEN b ELSE s[i]]

\* str.lower() on the protocol strings the model passes in
Lower(s) ==
    CASE s = "HTTP"  -> "http"
      [] s = "HTTPS" -> "https"
      [] s = "Https" -> "https"
      [] s = "TCP"   -> "tcp"
      [] s = "UDP"   -> "udp"
      [] s = "FTP"   -> "ftp"
      [] OTHER -> s

\* the literal heads of the f-strings of lines 175-176, 198, 209, 222-223
PoolPrefix == <<"p", "o", "o", "l", "-">>
VsPrefix == <<"v", "s", "-">>
CertPrefix == <<"c", "e", "r", "t", "-">>
CaCertPrefix == <<"c", "a", "-">> \o CertPrefix

Placeholder == "# Placeholder for CA certificate"

\* truth value of a str: '' is falsy
TruthyStr(v) == v # ""

\* lines 106-111
std_protocol(protocol) ==
    IF Lower(protocol) \in LBProtocol THEN Lower(protocol) ELSE "http"

\* lines 113-120: there is no else branch, an lb_method matching none of the
\* three tests is kept as it is
std_algorithm(lb_method) ==
    IF lb_method \in LBAlgorithm THEN lb_method
    ELSE IF lb_method = "round-robin" THEN "round_robin"
    ELSE IF lb_method = "least_conn" THEN "least_connections"
    ELSE lb_method

\* lines 122-127
std_persistence_type(persistence_type) ==
    IF persistence_type \in PersistenceType THEN persistence_type ELSE "none"

\* lines 129-134
std_client_auth_type(client_auth_type) ==
    IF client_auth_type \in ClientAuthType THEN client_auth_type ELSE "none"

\* lines 139-150: the member built for a server when n members exist already
pool_member(server, n) ==
    [id |-> Get(server, "id", <<"server-", n + 1>>),
     name |-> Get(server, "fqdn", Get(server, "ip", "")),
     ip_address |-> Get(server, "ip", ""),
     port |-> Get(server, "server_port", 80),
     weight |-> Get(server, "weight", 1),
     enabled |-> TRUE,
     monitor |-> "http",
     backup |-> Get(server, "backup", FALSE),
     max_connections |-> Get(server, "max_connections", 0),
     connection_limit |-> Get(server, "connection_limit", 0)]

\* faulty variant: members are prepended, so the list comes out reversed
pool_members_prepending(srvs) ==
    [i \in 1..Len(srvs) |-> pool_member(srvs[Len(srvs) + 1 - i], Len(srvs) - i)]

\* lines 137-151: one member appended per server, in order
pool_members(srvs) == [i \in 1..Len(srvs) |-> pool_member(srvs[i], i - 1)]

\* lines 154-171
persistence_config(vip, ptype) ==
    [type |-> ptype, timeout |-> Get(vip, "persistence_timeout", 3600)]
    @@ (IF ptype \in {"cookie", "app_cookie"}
        THEN [cookie_name |-> Get(vip, "persistence_cookie_name", "SERVERID"),
              cookie_mode |-> Get(vip, "cookie_mode", "insert"),
              cookie_path |-> Get(vip, "cookie_path", "/"),
              cookie_attributes |-> Get(vip, "cookie_attributes", "")]
        ELSE IF ptype = "http_header"
        THEN [header_name |-> Get(vip, "persistence_header_name", "X-Persistence")]
        ELSE EmptyDict)

\* faulty variant: the CA content is passed on as it was given
ca_content_as_given(client_ca_cert) == client_ca_cert

\* line 266: client_ca_cert if client_ca_cert else the placeholder
ca_content(client_ca_cert) ==
    IF TruthyStr(client_ca_cert) THEN client_ca_cert ELSE Placeholder

\* faulty variant: the CA reference is never filled in
mtls_client_ca_cert_id_unset(mtls_enabled, slug) == <<>>

\* lines 206-208: the CA reference, '' unless mTLS is enabled
mtls_client_ca_cert_id(mtls_enabled, slug) ==
    IF mtls_enabled THEN CaCertPrefix \o slug ELSE <<>>

create_standard_config(vip, srvs, placement_decision) ==
    LET vip_fqdn == Get(vip, "vip_fqdn", <<>>)
        protocol == Lower(Get(vip, "protocol", "HTTP"))
        mtls_enabled == Get(vip, "mtls_enabled", FALSE)
        client_ca_cert == Get(vip, "client_ca_cert", "")
        slug == Replace(vip_fqdn, ".", "-")
        pool ==
            [id |-> PoolPrefix \o slug,
             name |-> PoolPrefix \o vip_fqdn,
             members |-> pool_members(srvs),
             algorithm |-> std_algorithm(Get(vip, "lb_method", "round_robin")),
             monitor |-> [type |-> "http",
                          interval |-> Get(vip, "monitor_interval", 5),
                          timeout |-> Get(vip, "monitor_timeout", 15),
                          retries |-> Get(vip, "monitor_retries", 3),
                          http_method |-> Get(vip, "monitor_http_method", "GET"),
                          http_path |-> Get(vip, "monitor_http_path", "/"),
                          http_version |-> Get(vip, "monitor_http_version", "1.1"),
                          expected_codes |-> Get(vip, "monitor_expected_codes", "200"),
                          expected_text |-> Get(vip, "monitor_expected_text", "")],
             persistence |->
                 persistence_config(vip,
                     std_persistence_type(Get(vip, "persistence_type", "none"))),
             connection_limit |-> Get(vip, "pool_connection_limit", 0),
             service_down_action |-> Get(vip, "service_down_action", "none")]
        ssl_config ==
            [enabled |-> std_protocol(protocol) = "https",
             certificate_id |-> CertPrefix \o slug,
             protocols |-> Get(vip, "ssl_protocols", <<"TLSv1.2", "TLSv1.3">>),
             ciphers |-> Get(vip, "ssl_ciphers", ""),
             prefer_server_ciphers |-> Get(vip, "prefer_server_ciphers", TRUE),
             session_cache |-> Get(vip, "ssl_session_cache", TRUE),
             session_timeout |-> Get(vip, "ssl_session_timeout", 300)]
        client_ca_cert_id == mtls_client_ca_cert_id(mtls_enabled, slug)
        mtls_config ==
            [enabled |-> mtls_enabled,
             client_auth_type |->
                 std_client_auth_type(Get(vip, "client_auth_type", "none")),
             client_ca_cert_id |-> client_ca_cert_id,
             verify_depth |-> Get(vip, "mtls_verify_depth", 1),
             crl_enabled |-> Get(vip, "mtls_crl_enabled", FALSE),
             ocsp_enabled |-> Get(vip, "mtls_ocsp_enabled", FALSE)]
        virtual_server ==
            [id |-> VsPrefix \o slug,
             name |-> VsPrefix \o vip_fqdn,
             ip_address |-> Get(vip, "vip_ip", ""),
             port |-> Get(vip, "port", 80),
             protocol |-> std_protocol(protocol),
             pool_id |-> pool.id,
             ssl |-> ssl_config,
             mtls |-> mtls_config,
             enabled |-> TRUE,
             connection_limit |-> Get(vip, "vs_connection_limit", 0),
             connection_rate_limit |-> Get(vip, "vs_connection_rate_limit", 0),
             http |-> [x_forwarded_for |-> Get(vip, "x_forwarded_for", TRUE),
                       x_forwarded_proto |-> Get(vip, "x_forwarded_proto", TRUE),
                       redirect_http_to_https |-> Get(vip, "redirect_http_to_https", FALSE),
                       hsts_enabled |-> Get(vip, "hsts_enabled", FALSE),
                       hsts_max_age |-> Get(vip, "hsts_max_age", 31536000),
                       hsts_include_subdomains |-> Get(vip, "hsts_include_subdomains", FALSE),
                       hsts_preload |-> Get(vip, "hsts_preload", FALSE)]]
        certificates ==
            When(ssl_config.enabled,
                 <<[id |-> ssl_config.certificate_id,
                    name |-> CertPrefix \o vip_fqdn,
                    type |-> Get(vip, "cert_type", "self_signed"),
                    common_name |-> vip_fqdn,
                    sans |-> Get(vip, "cert_sans", <<vip_fqdn>>),
                    key_type |-> Get(vip, "cert_key_type", "RSA"),
                    key_size |-> Get(vip, "cert_key_size", 2048)]>>)
            \o When(mtls_enabled,
                    <<[id |-> client_ca_cert_id,
                       name |-> CaCertPrefix \o vip_fqdn,
                       type |-> "imported",
                       content |-> ca_content(client_ca_cert)]>>)
    IN  [metadata |-> [schema_version |-> "1.0",
                       lb_type |-> Get(placement_decision, "lb_type", ""),
                       environment |-> Get(vip, "environment", ""),
                       datacenter |-> Get(vip, "datacenter", ""),
                       created_by |-> "LBaaS",
                       description |-> <<"Load balancer configuration for ">> \o vip_fqdn],
         virtual_server |-> virtual_server,
         pools |-> <<pool>>,
         certificates |-> certificates,
         policies |-> <<>>]

\* the translator classes, as `kind` names them
NginxTranslator == "NGINX"
F5Translator == "F5"
AviTranslator == "AVI"

\* str.upper() on the labels the model passes in
Upper(s) ==
    CASE s = "nginx" -> "NGINX"
      [] s = "f5"    -> "F5"
      [] s = "Avi"   -> "AVI"
      [] s = "xyz"   -> "XYZ"
      [] OTHER -> s

\* faulty variant: the label is compared without regard to letter case
get_translator_ignoring_case(label) ==
    IF Upper(label) = "NGINX" THEN [raised |-> FALSE, value |-> NginxTranslator]
    ELSE IF Upper(label) = "F5" THEN [raised |-> FALSE, value |-> F5Translator]
    ELSE IF Upper(label) = "AVI" THEN [raised |-> FALSE, value |-> AviTranslator]
    ELSE [raised |-> TRUE, error |-> <<"Unsupported load balancer type", label>>]

\* TranslatorFactory.get_translator, lines 33-40
get_translator(label) ==
    IF label = "NGINX" THEN [raised |-> FALSE, value |-> NginxTranslator]
    ELSE IF label = "F5" THEN [raised |-> FALSE, value |-> F5Translator]
    ELSE IF label = "AVI" THEN [raised |-> FALSE, value |-> AviTranslator]
    ELSE [raised |-> TRUE, error |-> <<"Unsupported load balancer type", label>>]

-----------------------------------------------------------------------------
(* The configurations the model runs on *)

MaxPools == 2
MaxCerts == 2

SeqsUpTo(S, n) == UNION {[1..m -> S] : m \in 0..n}

Restrict(d, keys) == [k \in (DOMAIN d) \cap keys |-> d[k]]

\* an optional key: present with Head(o) when o is not <<>>
Opt(k, o) == IF o = <<>> THEN EmptyDict ELSE k :> Head(o)

Kinds == {"NGINX", "F5", "AVI"}

Metadata == [schema_version |-> "1.0", lb_type |-> "NGINX", environment |-> "DEV",
             datacenter |-> "DC1", created_by |-> "LBaaS"]

FullPool ==
    [id |-> "p1", name |-> "pool-web", algorithm |-> "least_connections",
     members |-> <<[id |-> "server-1", name |-> "web1", ip_address |-> "10.0.1.1",
                    port |-> 8080, weight |-> 1, enabled |-> TRUE, backup |-> FALSE,
                    max_connections |-> 0, connection_limit |-> 0],
                   [id |-> "server-2", name |-> "web2", ip_address |-> "10.0.1.2",
                    port |-> 8080, weight |-> 2, enabled |-> TRUE, backup |-> TRUE,
                    max_connections |-> 100, connection_limit |-> 50]>>,
     persistence |-> [type |-> "cookie", timeout |-> 3600, cookie_name |-> "SERVERID"]]

PoolVals == {EmptyDict, [id |-> "p1"], [id |-> "p2"], [name |-> "pool-web"], FullPool}

PoolIdVals == {None, "p1", "p2"}

ServerCert == [id |-> "c1", name |-> "cert-app", type |-> "self_signed"]
CaCert == [id |-> "ca1", name |-> "ca-cert-app", type |-> "imported",
           content |-> "# Placeholder for CA certificate"]

CertVals == {ServerCert, CaCert, [name |-> "cert-app"]}

\* the certificates key: absent, or a list of at most MaxCerts entries
CertLists == {<<>>} \cup {<<l>> : l \in SeqsUpTo(CertVals, MaxCerts)}

\* the ssl key of the virtual server: absent, or one of these dicts
SslVals == {<<>>, <<EmptyDict>>, <<[enabled |-> FALSE]>>, <<[enabled |-> TRUE]>>,
            <<[enabled |-> TRUE, certificate_id |-> ""]>>,
            <<[enabled |-> TRUE, certificate_id |-> "c1"]>>,
            <<[enabled |-> TRUE, certificate_id |-> "ca1"]>>}

MtlsVals == {<<>>, <<[enabled |-> FALSE]>>, <<[enabled |-> TRUE]>>,
             <<[enabled |-> TRUE, client_auth_type |-> "required",
                client_ca_cert_id |-> "ca1", verify_depth |-> 2]>>,
             <<[enabled |-> TRUE, client_auth_type |-> "optional",
                client_ca_cert_id |-> "c1", verify_depth |-> 1]>>}

Sections == {"metadata", "virtual_server", "pools"}
VsFields == {"id", "name", "ip_address", "port", "protocol", "pool_id"}

MkConfig(secs, fields, pool_id, pools, protocol, ssl, mtls, certs) ==
    Restrict([metadata |-> Metadata,
              virtual_server |->
                  Restrict([id |-> "vs-app", name |-> "vs-app", ip_address |-> "10.0.0.1",
                            port |-> 443, protocol |-> protocol, pool_id |-> pool_id],
                           fields)
                  @@ Opt("ssl", ssl) @@ Opt("mtls", mtls),
              pools |-> pools], secs)
    @@ Opt("certificates", certs)

\* protocol, ssl, mtls, certificates of a few typical services
TlsFew == {<<"http", <<>>, <<>>, <<>>>>,
           <<"http", <<[enabled |-> TRUE]>>, <<>>, <<<<>>>>>>,
           <<"https", <<[enabled |-> TRUE, certificate_id |-> "c1"]>>, <<>>,
             <<<<ServerCert>>>>>>,
           <<"https", <<[enabled |-> TRUE, certificate_id |-> "c1"]>>,
             <<[enabled |-> TRUE, client_auth_type |-> "required",
                client_ca_cert_id |-> "ca1", verify_depth |-> 2]>>,
             <<<<ServerCert, CaCert>>>>>>}

PoolsFew == {<<"p1", <<FullPool>>>>, <<"p1", <<[id |-> "p1"]>>>>}

\* any sections and virtual-server fields removed
StructConfigs ==
    {MkConfig(secs, fields, "p1", <<FullPool>>, t[1], t[2], t[3], t[4]) :
        secs \in SUBSET Sections, fields \in SUBSET VsFields, t \in TlsFew}

\* any pool reference against any pool list
PoolConfigs ==
    {MkConfig(Sections, VsFields, pid, pools, t[1], t[2], t[3], t[4]) :
        pid \in PoolIdVals, pools \in SeqsUpTo(PoolVals, MaxPools), t \in TlsFew}

\* any protocol, ssl, mtls and certificate list
TlsConfigs ==
    {MkConfig(Sections, VsFields, p[1], p[2], protocol, ssl, mtls, certs) :
        p \in PoolsFew, protocol \in LBProtocol, ssl \in SslVals, mtls \in MtlsVals,
        certs \in CertLists}

Configs == StructConfigs \cup PoolConfigs \cup TlsConfigs

-----------------------------------------------------------------------------
(* LBTranslatorBase.translate_config and deploy as steps *)

NoFile == [exists |-> FALSE, content |-> <<>>]

\* what a file holds: <<>> (empty), <<"stale">> (left by an earlier run),
\* <<"partial", a>> (a proper prefix of a), <<"full", a>> (all of a)
StaleFile == [exists |-> TRUE, content |-> <<"stale">>]

_get_file_extension(k) == IF k = "NGINX" THEN "conf" ELSE "json"

OutputDir == "out"

\* lines 143-147: os.path.join(output_dir, f"{vs_name}.{ext}")
ConfigPath(config, k) ==
    <<OutputDir, Get(Get(config, "virtual_server", EmptyDict), "name", "unknown"),
      _get_file_extension(k)>>

\* faulty variant: the outcome of validation is ignored
translate_config_next_ignoring_validation(err) == "generate"

\* translate_config line 35: a ValueError of _validate_config leaves
\* translate_config at once; otherwise lines 38-44 run the generator
translate_config_next(err) == IF err = NoError THEN "generate" ELSE "raise"

\* faulty variant: `except ValueError` in place of `except Exception`
DeployCatches_ValueError_only(exc_type) == exc_type = "ValueError"

\* deploy lines 136 and 162: `except Exception` catches every exception type
DeployCatches(exc_type) == TRUE

\* deploy lines 163-166
deploy_except(e) ==
    [success |-> FALSE, error |-> <<"Exception during deployment", e.msg>>]

\* faulty variant: the output directory is created before the configuration is translated
DeployStepAfter_makedirs_first(step) ==
    CASE step = "call"     -> "makedirs"
      [] step = "makedirs" -> "validate"
      [] step = "generate" -> "path"
      [] step = "path"     -> "open"
      [] step = "close"    -> "hook"

\* the order of deploy's statements, lines 138-152
DeployStepAfter(step) ==
    CASE step = "call"     -> "validate"
      [] step = "generate" -> "makedirs"
      [] step = "makedirs" -> "path"
      [] step = "path"     -> "open"
      [] step = "close"    -> "hook"

\* AviTranslator._deploy_vendor_config lines 337-342
avi_hook_except(e, path) ==
    [success |-> FALSE,
     error |-> <<"Exception during AVI configuration generation", e.msg>>,
     config_path |-> path]

\* NginxTranslator._deploy_vendor_config lines 319-323
nginx_hook_except(e) ==
    [success |-> FALSE, error |-> <<"Exception during NGINX deployment", e.msg>>]

\* An exception e raised at failure point `point` while `caller` runs: where
\* control goes and what is returned.
Raise(point, e) ==
    /\ failure' = point
    /\ CASE caller = "direct" ->
              /\ pc' = "raised"
              /\ UNCHANGED <<caller, result, hookResult>>
         [] caller = "deploy" ->
              /\ IF DeployCatches(e.type)
                 THEN pc' = "returned" /\ result' = <<deploy_except(e)>>
                 ELSE pc' = "propagated" /\ UNCHANGED result
              /\ UNCHANGED <<caller, hookResult>>
         [] caller = "avi_hook" ->
              /\ pc' = "update"
              /\ caller' = "deploy"
              /\ hookResult' = <<avi_hook_except(e, Head(config_path))>>
              /\ UNCHANGED result

\* a direct call of translate_config(standard_config)
CallTranslate ==
    /\ pc = "idle"
    /\ pc' = "validate"
    /\ caller' = "direct"
    /\ UNCHANGED <<cfg, kind, fs0, written, builderVars, concVars, historyVars, serviceVars,
                   verr, artifact, genCalls, dirExists, sslDir, file,
                   config_path, result, hookResult, failure>>

\* a call of deploy(standard_config, output_dir)
CallDeploy ==
    /\ pc = "idle"
    /\ pc' = DeployStepAfter("call")
    /\ caller' = "deploy"
    /\ UNCHANGED <<cfg, kind, fs0, written, builderVars, concVars, historyVars, serviceVars,
                   verr, artifact, genCalls, dirExists, sslDir, file,
                   config_path, result, hookResult, failure>>

\* translate_config line 35
Validate ==
    /\ pc = "validate"
    /\ verr' = <<_validate_config(cfg)>>
    /\ IF translate_config_next(_validate_config(cfg)) = "raise"
       THEN Raise("validation", [type |-> "ValueError", msg |-> _validate_config(cfg)])
       ELSE /\ pc' = "generate"
            /\ UNCHANGED <<caller, result, hookResult, failure>>
    /\ UNCHANGED <<cfg, kind, fs0, written, builderVars, concVars, historyVars, serviceVars,
                   artifact, genCalls, dirExists, sslDir, file, config_path>>

\* faulty variant: the certificates default is stored into the caller's dict
\* (standard_config.setdefault('certificates', []))
ExtractComponents_setdefault(standard_config) ==
    [metadata |-> Get(standard_config, "metadata", EmptyDict),
     virtual_server |-> Get(standard_config, "virtual_server", EmptyDict),
     pools |-> Get(standard_config, "pools", <<>>),
     certificates |-> Get(standard_config, "certificates", <<>>),
     standard_config |-> standard_config @@ ("certificates" :> <<>>)]

\* translate_config lines 38-41: the four components read with dict.get, and
\* the caller's dict as these reads leave it
ExtractComponents(standard_config) ==
    [metadata |-> Get(standard_config, "metadata", EmptyDict),
     virtual_server |-> Get(standard_config, "virtual_server", EmptyDict),
     pools |-> Get(standard_config, "pools", <<>>),
     certificates |-> Get(standard_config, "certificates", <<>>),
     standard_config |-> standard_config]

\* translate_config lines 38-44
Generate ==
    /\ pc = "generate"
    /\ genCalls' = genCalls + 1
    /\ LET x == ExtractComponents(cfg)
           g == _generate_vendor_config(kind, x.metadata, x.virtual_server, x.pools,
                                        x.certificates)
       IN  /\ cfg' = x.standard_config
           /\ IF g.raised
              THEN /\ Raise("generation", [type |-> "ValueError", msg |-> g.error])
                   /\ UNCHANGED <<artifact, returned>>
              ELSE /\ artifact' = <<g.value>>
                   /\ returned' = Append(returned, <<cfg, g.value>>)
                   /\ pc' = CASE caller = "direct"   -> "done"
                              [] caller = "deploy"   -> DeployStepAfter("generate")
                              [] caller = "avi_hook" -> "open"
                   /\ UNCHANGED <<caller, result, hookResult, failure>>
    /\ UNCHANGED <<kind, fs0, written, builderVars, concVars, serviceVars, ncalls, verr, dirExists, sslDir,
                   file, config_path>>

\* deploy line 141: os.makedirs(output_dir, exist_ok=True), which may fail
Makedirs ==
    /\ pc = "makedirs"
    /\ \/ /\ dirExists' = TRUE
          /\ pc' = DeployStepAfter("makedirs")
          /\ UNCHANGED <<caller, result, hookResult, failure>>
       \/ /\ ~dirExists
          /\ Raise("makedirs", [type |-> "OSError", msg |-> <<"makedirs">>])
          /\ UNCHANGED dirExists
    /\ UNCHANGED <<cfg, kind, fs0, written, builderVars, concVars, historyVars, serviceVars,
                   verr, artifact, genCalls, sslDir, file, config_path>>

\* deploy lines 143-147
ComputePath ==
    /\ pc = "path"
    /\ config_path' = <<ConfigPath(cfg, kind)>>
    /\ pc' = DeployStepAfter("path")
    /\ UNCHANGED <<cfg, kind, fs0, written, builderVars, concVars, historyVars, serviceVars,
                   caller, verr, artifact, genCalls, dirExists, sslDir, file,
                   result, hookResult, failure>>

\* open(config_path, 'w'): creates or truncates the file, or fails and leaves it
\* (deploy line 148, AVI hook line 328)
Open ==
    /\ pc = "open"
    /\ \/ /\ dirExists
          /\ file' = [exists |-> TRUE, content |-> <<>>]
          /\ pc' = "write"
          /\ UNCHANGED <<caller, result, hookResult, failure>>
       \/ /\ Raise("open", [type |-> "OSError", msg |-> <<"open">>])
          /\ UNCHANGED file
    /\ UNCHANGED <<cfg, kind, fs0, written, builderVars, concVars, historyVars, serviceVars,
                   verr, artifact, genCalls, dirExists, sslDir, config_path>>

\* f.write(vendor_config): the text goes to the buffer and any prefix of it may
\* already be in the file; a failing write leaves less than the whole text
\* (deploy line 149, AVI hook line 329)
Write ==
    /\ pc = "write"
    /\ \/ /\ \E c \in {<<>>, <<"partial", Head(artifact)>>, <<"full", Head(artifact)>>} :
                file' = [exists |-> TRUE, content |-> c]
          /\ pc' = "close"
          /\ UNCHANGED <<caller, result, hookResult, failure>>
       \/ /\ \E c \in {<<>>, <<"partial", Head(artifact)>>} :
                file' = [exists |-> TRUE, content |-> c]
          /\ Raise("write", [type |-> "OSError", msg |-> <<"write">>])
    /\ UNCHANGED <<cfg, kind, fs0, written, builderVars, concVars, historyVars, serviceVars,
                   verr, artifact, genCalls, dirExists, sslDir, config_path>>

\* the end of the with block: the buffer is flushed and the file closed; the
\* flush of text not yet in the file may fail
Close ==
    /\ pc = "close"
    /\ \/ /\ file' = [exists |-> TRUE, content |-> <<"full", Head(artifact)>>]
          /\ IF caller = "deploy"
             THEN /\ pc' = DeployStepAfter("close")
                  /\ UNCHANGED <<caller, hookResult>>
             ELSE \* AVI hook lines 331-335
                  /\ pc' = "update"
                  /\ caller' = "deploy"
                  /\ hookResult' = <<[success |-> TRUE, config_path |-> Head(config_path),
                                      message |-> "AVI configuration generated and saved"]>>
          /\ written' = TRUE
          /\ UNCHANGED <<result, failure>>
       \/ /\ file.content # <<"full", Head(artifact)>>
          /\ Raise("close", [type |-> "OSError", msg |-> <<"close">>])
          /\ UNCHANGED <<file, written>>
    /\ UNCHANGED <<cfg, kind, fs0, builderVars, concVars, historyVars, serviceVars,
                   verr, artifact, genCalls, dirExists, sslDir, config_path>>

\* F5Translator._deploy_vendor_config lines 250-258: nothing but the result
HookF5 ==
    /\ pc = "hook" /\ kind = "F5"
    /\ hookResult' = <<[success |-> TRUE, config_path |-> Head(config_path),
                        message |-> "F5 configuration generated and saved"]>>
    /\ pc' = "update"
    /\ UNCHANGED <<cfg, kind, fs0, written, builderVars, concVars, historyVars, serviceVars,
                   caller, verr, artifact, genCalls, dirExists, sslDir, file,
                   config_path, result, failure>>

\* AviTranslator._deploy_vendor_config line 325: translates again, then
\* lines 328-329 open and write config_path again (steps Open, Write, Close)
HookAvi ==
    /\ pc = "hook" /\ kind = "AVI"
    /\ caller' = "avi_hook"
    /\ pc' = "validate"
    /\ UNCHANGED <<cfg, kind, fs0, written, builderVars, concVars, historyVars, serviceVars,
                   verr, artifact, genCalls, dirExists, sslDir, file,
                   config_path, result, hookResult, failure>>

\* ssl_enabled or mtls_enabled of NginxTranslator._deploy_vendor_config, lines 266-270
NginxNeedsSslDir(config) ==
    LET virtual_server == Get(config, "virtual_server", EmptyDict)
    IN  \/ Get(Get(virtual_server, "ssl", EmptyDict), "enabled", FALSE)
        \/ Get(Get(virtual_server, "mtls", EmptyDict), "enabled", FALSE)

\* NginxTranslator._deploy_vendor_config lines 257-285: the ssl directory and
\* the placeholder certificate files, whose creation may fail
HookNginxSsl ==
    /\ pc = "hook" /\ kind = "NGINX"
    /\ IF NginxNeedsSslDir(cfg)
       THEN \/ /\ sslDir' = TRUE
               /\ pc' = "nginx_run"
               /\ UNCHANGED <<hookResult, failure>>
            \/ /\ hookResult' = <<nginx_hook_except([type |-> "OSError", msg |-> <<"ssl">>])>>
               /\ failure' = "hook"
               /\ pc' = "update"
               /\ UNCHANGED sslDir
       ELSE /\ pc' = "nginx_run"
            /\ UNCHANGED <<sslDir, hookResult, failure>>
    /\ UNCHANGED <<cfg, kind, fs0, written, builderVars, concVars, historyVars, serviceVars,
                   caller, verr, artifact, genCalls, dirExists, file,
                   config_path, result>>

\* NginxTranslator._deploy_vendor_config lines 288-317: docker run exits 0,
\* exits non-zero, or cannot be started
HookNginxRun ==
    /\ pc = "nginx_run"
    /\ \/ /\ hookResult' = <<[success |-> TRUE, container_name |-> "nginx",
                              config_path |-> Head(config_path),
                              message |-> "NGINX container deployed successfully"]>>
          /\ UNCHANGED failure
       \/ /\ hookResult' = <<[success |-> FALSE,
                              error |-> <<"Failed to deploy NGINX container", <<"stderr">>>>,
                              config_path |-> Head(config_path)]>>
          /\ failure' = "hook"
       \/ /\ hookResult' = <<nginx_hook_except([type |-> "OSError", msg |-> <<"docker">>])>>
          /\ failure' = "hook"
    /\ pc' = "update"
    /\ UNCHANGED <<cfg, kind, fs0, written, builderVars, concVars, historyVars, serviceVars,
                   caller, verr, artifact, genCalls, dirExists, sslDir, file,
                   config_path, result>>

\* faulty variant: update adds lb_type only and keeps the hook's own keys
deploy_update_lb_type_only(deploy_result, path, config) ==
    [lb_type |-> Get(Get(config, "metadata", EmptyDict), "lb_type", "")]
    @@ deploy_result

\* deploy lines 155-158: deploy_result.update({...})
deploy_update(deploy_result, path, config) ==
    [config_path |-> path,
     lb_type |-> Get(Get(config, "metadata", EmptyDict), "lb_type", "")]
    @@ deploy_result

\* deploy lines 154-160
Update ==
    /\ pc = "update"
    /\ result' = <<deploy_update(Head(hookResult), Head(config_path), cfg)>>
    /\ pc' = "returned"
    /\ UNCHANGED <<cfg, kind, fs0, written, builderVars, concVars, historyVars, serviceVars,
                   caller, verr, artifact, genCalls, dirExists, sslDir, file,
                   config_path, hookResult, failure>>

-----------------------------------------------------------------------------
(* Specifications *)

\* no IR builder or selector call is part of the run
NoBuilder == vip_config = EmptyDict /\ servers = <<>> /\ lb_type = ""

\* no concurrent deploy calls are part of the run
NoCalls == shared_file = <<>> /\ calls = <<>>

\* no request to the backend API, the storage managers or the mock IPAM is
\* part of the run
NoApi == vips_collection = {} /\ list_request = <<>> /\ list_response = <<>>

NoStorage == configs = EmptyDict /\ heap = EmptyDict /\ prepared = <<>>

NoIpam == ip_pools = EmptyDict /\ mock_ip_allocations = EmptyDict /\ mock_dns_records = EmptyDict

NoService == NoApi /\ NoStorage /\ NoIpam

InitCommon ==
    /\ kind \in Kinds
    /\ pc = "idle"
    /\ caller = "none"
    /\ verr = <<>>
    /\ artifact = <<>>
    /\ genCalls = 0
    /\ sslDir = FALSE
    /\ config_path = <<>>
    /\ result = <<>>
    /\ hookResult = <<>>
    /\ failure = "none"
    /\ written = FALSE
    /\ returned = <<>>
    /\ ncalls = 0

DeployConfigs ==
    {MkConfig(secs, VsFields, pid, pools, t[1], t[2], t[3], t[4]) :
        secs \in {Sections, Sections \ {"metadata"}},
        pid \in {None, "p1"},
        pools \in {<<FullPool>>, <<EmptyDict>>, <<[id |-> "p2"]>>},
        t \in TlsFew}

\* deploy and translate_config on a few configurations, over every file-system
\* state the output directory can start in
Init ==
    /\ InitCommon
    /\ cfg \in DeployConfigs
    /\ dirExists \in BOOLEAN
    /\ file \in IF dirExists THEN {NoFile, StaleFile} ELSE {NoFile}
    /\ fs0 = <<dirExists, sslDir, file>>
    /\ NoBuilder
    /\ NoCalls
    /\ NoService

Next ==
    \/ CallTranslate \/ CallDeploy \/ Validate \/ Generate \/ Makedirs \/ ComputePath
    \/ Open \/ Write \/ Close \/ HookF5 \/ HookAvi \/ HookNginxSsl \/ HookNginxRun
    \/ Update

Spec == Init /\ [][Next]_vars

\* translate_config alone, on every configuration of Configs
InitTranslate ==
    /\ InitCommon
    /\ cfg \in Configs
    /\ dirExists = FALSE
    /\ file = NoFile
    /\ fs0 = <<dirExists, sslDir, file>>
    /\ NoBuilder
    /\ NoCalls
    /\ NoService

NextTranslate == CallTranslate \/ Validate \/ Generate

SpecTranslate == InitTranslate /\ [][NextTranslate]_vars

-----------------------------------------------------------------------------
(* Two deploy calls running concurrently on one config_path (deploy lines   *)
(* 143-149).  Each call holds its own file object: open(config_path, 'w')   *)
(* truncates the file and starts the call's offset at 0, f.write puts the   *)
(* text into the file object's buffer, from which any prefix may already be *)
(* written out, and the end of the with block writes out the rest at the    *)
(* call's own offset and closes.  The file is a sequence of bytes.          *)

MaxArtifactLen == 2

Callers == {1, 2}

\* the vendor_config of call p, n bytes long; two calls never share a byte
VendorText(p, n) == [i \in 1..n |-> <<p, i>>]

\* a byte no call wrote: the hole left by writing past the end of the file
Nul == <<0, 0>>

\* a byte left in the file by an earlier deploy
StaleByte == <<0, 1>>

Max(a, b) == IF a >= b THEN a ELSE b

\* write(fd, bytes) at offset pos of file f
WriteAt(f, pos, bytes) ==
    [i \in 1..Max(Len(f), pos + Len(bytes)) |->
        IF i > pos /\ i <= pos + Len(bytes) THEN bytes[i - pos]
        ELSE IF i <= Len(f) THEN f[i]
        ELSE Nul]

\* deploy line 148: open(config_path, 'w')
ConcOpen(p) ==
    /\ calls[p].pc = "open"
    /\ shared_file' = <<>>
    /\ calls' = [calls EXCEPT ![p].pc = "write", ![p].pos = 0]
    /\ UNCHANGED <<cfg, kind, pc, builderVars, historyVars, serviceVars, deployVars>>

\* deploy line 149: f.write(vendor_config); n bytes leave the buffer at once
ConcWrite(p) ==
    /\ calls[p].pc = "write"
    /\ \E n \in 0..Len(calls[p].text) :
          /\ shared_file' = WriteAt(shared_file, calls[p].pos, SubSeq(calls[p].text, 1, n))
          /\ calls' = [calls EXCEPT ![p].pc = "close",
                                    ![p].pos = calls[p].pos + n,
                                    ![p].buf = SubSeq(calls[p].text, n + 1,
                                                      Len(calls[p].text))]
    /\ UNCHANGED <<cfg, kind, pc, builderVars, historyVars, serviceVars, deployVars>>

\* the end of the with block of lines 148-149: flush and close; the call
\* then goes on to its hook and returns
ConcClose(p) ==
    /\ calls[p].pc = "close"
    /\ shared_file' = WriteAt(shared_file, calls[p].pos, calls[p].buf)
    /\ calls' = [calls EXCEPT ![p].pc = "returned",
                              ![p].pos = calls[p].pos + Len(calls[p].buf),
                              ![p].buf = <<>>]
    /\ UNCHANGED <<cfg, kind, pc, builderVars, historyVars, serviceVars, deployVars>>

\* both calls have translated (same virtual_server.name, output directory and
\* extension) and are about to open config_path
InitConcurrent ==
    /\ InitCommon
    /\ cfg \in {MkConfig(Sections, VsFields, "p1", <<FullPool>>, "http", <<>>, <<>>, <<>>)}
    /\ dirExists = TRUE
    /\ file = NoFile
    /\ fs0 = <<dirExists, sslDir, file>>
    /\ NoBuilder
    /\ NoService
    /\ shared_file \in {<<>>, <<StaleByte>>}
    /\ \E n1 \in 1..MaxArtifactLen, n2 \in 1..MaxArtifactLen :
          calls = [p \in Callers |->
                      [pc |-> "open", pos |-> 0, buf |-> <<>>,
                       text |-> VendorText(p, IF p = 1 THEN n1 ELSE n2)]]

ConcOpenAny == \E p \in Callers : ConcOpen(p)
ConcWriteAny == \E p \in Callers : ConcWrite(p)
ConcCloseAny == \E p \in Callers : ConcClose(p)

NextConcurrent == ConcOpenAny \/ ConcWriteAny \/ ConcCloseAny

SpecConcurrent == InitConcurrent /\ [][NextConcurrent]_vars

-----------------------------------------------------------------------------
(* The IR builder and the selector as steps: a configuration is built from  *)
(* a VIP intent, a server list and a placement decision, and the placement  *)
(* decision's lb_type is handed to get_translator, as run_tests and         *)
(* create_test_configs of translator_test.py do.                            *)

MaxFqdnLen == 3
MaxServers == 2

Chars == {"a", ".", "-"}

\* vip_fqdn values, '' included
Fqdns == SeqsUpTo(Chars, MaxFqdnLen)

ProtocolInputs == {"HTTP", "HTTPS", "Https", "https", "http", "TCP", "udp", "FTP", ""}

LbMethodInputs == LBAlgorithm \cup {"round-robin", "least_conn", "random", ""}

PersistenceInputs == {"none", "source_ip", "cookie", "http_header", "sticky"}

Labels == {"NGINX", "F5", "AVI", "nginx", "f5", "Avi", "XYZ", "xyz", ""}

VipBase == [vip_ip |-> "10.0.0.1", port |-> 443, environment |-> "DEV",
            datacenter |-> "DC1"]

\* a vip_config: each argument is <<>> (key absent) or <<value>>
MkVip(fqdn, protocol, lb_method, persistence, mtls_enabled, ca_cert, auth_type) ==
    VipBase @@ Opt("vip_fqdn", fqdn) @@ Opt("protocol", protocol)
    @@ Opt("lb_method", lb_method) @@ Opt("persistence_type", persistence)
    @@ Opt("mtls_enabled", mtls_enabled) @@ Opt("client_ca_cert", ca_cert)
    @@ Opt("client_auth_type", auth_type)

\* an optional argument: absent, or one of the values of S
Maybe(S) == {<<>>} \cup {<<v>> : v \in S}

Fqdn0 == <<"a", ".", "a">>

\* every FQDN, for a plain and a TLS service
FqdnVips ==
    {MkVip(f, <<pr>>, <<>>, <<>>, m, <<>>, <<>>) :
        f \in Maybe(Fqdns), pr \in {"HTTP", "HTTPS"}, m \in {<<>>, <<TRUE>>}}

\* every protocol, lb_method and persistence_type string
VocabularyVips ==
    {MkVip(<<Fqdn0>>, pr, lb, ps, <<>>, <<>>, <<>>) :
        pr \in Maybe(ProtocolInputs), lb \in Maybe(LbMethodInputs),
        ps \in Maybe(PersistenceInputs)}

\* every protocol with every mTLS setting
TlsVips ==
    {MkVip(<<Fqdn0>>, pr, <<>>, <<>>, m, ca, auth) :
        pr \in Maybe(ProtocolInputs), m \in Maybe(BOOLEAN),
        ca \in Maybe({"", "PEM"}), auth \in Maybe({"required", "bogus"})}

VipConfigs == FqdnVips \cup VocabularyVips \cup TlsVips

Vip0 == MkVip(<<Fqdn0>>, <<"HTTPS">>, <<"least_conn">>, <<"cookie">>, <<TRUE>>, <<>>,
              <<"required">>)

ServerVals ==
    {[fqdn |-> "web1", ip |-> "10.0.1.1", server_port |-> 8080, weight |-> 1],
     [fqdn |-> "web2", ip |-> "10.0.1.2", server_port |-> 8443, weight |-> 2,
      backup |-> TRUE],
     [ip |-> "10.0.1.3", server_port |-> 9000],
     [ip |-> "10.0.1.4", server_port |-> 8080, weight |-> 0, id |-> "s4"]}

ServerLists == SeqsUpTo(ServerVals, MaxServers)

Servers0 == <<[fqdn |-> "web1", ip |-> "10.0.1.1", server_port |-> 8080, weight |-> 1],
              [fqdn |-> "web2", ip |-> "10.0.1.2", server_port |-> 8443, weight |-> 2,
               backup |-> TRUE]>>

\* <<vip_config, servers, lb_type>>: each argument over all its values, the
\* other two at a typical value
BuildInputs ==
    {<<v, Servers0, "NGINX">> : v \in VipConfigs}
    \cup {<<Vip0, sl, "F5">> : sl \in ServerLists}
    \cup {<<Vip0, Servers0, l>> : l \in Labels}

\* config = schema.create_standard_config(vip_config, servers, placement_decision)
CreateStandardConfig ==
    /\ pc = "build"
    /\ cfg' = create_standard_config(vip_config, servers, [lb_type |-> lb_type])
    /\ pc' = "select"
    /\ UNCHANGED <<kind, builderVars, concVars, historyVars, serviceVars, deployVars>>

\* translator = TranslatorFactory.get_translator(lb_type)
GetTranslator ==
    /\ pc = "select"
    /\ IF get_translator(lb_type).raised
       THEN pc' = "unsupported" /\ UNCHANGED kind
       ELSE pc' = "selected" /\ kind' = get_translator(lb_type).value
    /\ UNCHANGED <<cfg, builderVars, concVars, historyVars, serviceVars, deployVars>>

InitBuild ==
    /\ \E i \in BuildInputs : vip_config = i[1] /\ servers = i[2] /\ lb_type = i[3]
    /\ cfg = EmptyDict
    /\ kind = "none"
    /\ pc = "build"
    /\ caller = "none"
    /\ verr = <<>>
    /\ artifact = <<>>
    /\ genCalls = 0
    /\ dirExists = FALSE
    /\ sslDir = FALSE
    /\ file = NoFile
    /\ config_path = <<>>
    /\ result = <<>>
    /\ hookResult = <<>>
    /\ failure = "none"
    /\ fs0 = <<dirExists, sslDir, file>>
    /\ written = FALSE
    /\ returned = <<>>
    /\ ncalls = 0
    /\ NoCalls
    /\ NoService

NextBuild == CreateStandardConfig \/ GetTranslator

SpecBuild == InitBuild /\ [][NextBuild]_vars

-----------------------------------------------------------------------------
(* translate_config on configurations whose pool runs over every algorithm  *)
(* and every persistence value, enumerated or not                           *)

AlgorithmInputs == LBAlgorithm \cup {"random", ""}

\* the persistence key of the pool: absent, or one of these dicts
PersistenceVals ==
    {<<>>, <<EmptyDict>>, <<[type |-> "none", timeout |-> 3600]>>,
     <<[type |-> "source_ip", timeout |-> 7200]>>,
     <<[type |-> "cookie", timeout |-> 3600, cookie_name |-> "SERVERID"]>>,
     <<[type |-> "app_cookie", timeout |-> 3600, cookie_name |-> "JSESSIONID"]>>,
     <<[type |-> "http_header", timeout |-> 3600, header_name |-> "X-Persistence"]>>,
     <<[type |-> "tls_session_id", timeout |-> 3600]>>,
     <<[type |-> "custom", timeout |-> 3600]>>,
     <<[type |-> "sticky", timeout |-> 3600]>>}

\* FullPool with the algorithm and persistence keys absent or given
MappingPool(algorithm, persistence) ==
    Restrict(FullPool, {"id", "name", "members"})
    @@ Opt("algorithm", algorithm) @@ Opt("persistence", persistence)

MappingConfigs ==
    {MkConfig(Sections, VsFields, "p1", <<MappingPool(a, ps)>>, "http", <<>>, <<>>, <<>>) :
        a \in Maybe(AlgorithmInputs), ps \in PersistenceVals}

InitMapping ==
    /\ InitCommon
    /\ cfg \in MappingConfigs
    /\ dirExists = FALSE
    /\ file = NoFile
    /\ fs0 = <<dirExists, sslDir, file>>
    /\ NoBuilder
    /\ NoCalls
    /\ NoService

SpecMapping == InitMapping /\ [][NextTranslate]_vars

-----------------------------------------------------------------------------
(* Several calls, one after the other, on one translator object: each call  *)
(* is translate_config or deploy on a configuration of the caller's choice, *)
(* and finds the file system as the calls before it left it.                *)

MaxCalls == 3

RepeatConfigs ==
    {MkConfig(Sections, VsFields, "p1", pools, t[1], t[2], t[3], t[4]) :
        pools \in {<<FullPool>>, <<EmptyDict>>},
        t \in {<<"http", <<>>, <<>>, <<>>>>,
               <<"https", <<[enabled |-> TRUE, certificate_id |-> "c1"]>>, <<>>,
                 <<<<ServerCert>>>>>>}}

\* the previous call is over and the caller starts the next one
NextCall ==
    /\ pc \in {"done", "raised", "returned", "propagated"}
    /\ ncalls + 1 < MaxCalls
    /\ ncalls' = ncalls + 1
    /\ cfg' \in RepeatConfigs
    /\ pc' = "idle"
    /\ caller' = "none"
    /\ verr' = <<>>
    /\ artifact' = <<>>
    /\ config_path' = <<>>
    /\ result' = <<>>
    /\ hookResult' = <<>>
    /\ failure' = "none"
    /\ written' = FALSE
    /\ fs0' = <<dirExists, sslDir, file>>
    /\ UNCHANGED <<kind, genCalls, dirExists, sslDir, file, returned, builderVars, concVars,
                   serviceVars>>

InitRepeat ==
    /\ InitCommon
    /\ cfg \in RepeatConfigs
    /\ dirExists = TRUE
    /\ file = NoFile
    /\ fs0 = <<dirExists, sslDir, file>>
    /\ NoBuilder
    /\ NoCalls
    /\ NoService

NextRepeat == Next \/ NextCall

SpecRepeat == InitRepeat /\ [][NextRepeat]_vars

-----------------------------------------------------------------------------
(* translate_config over pools with any member list, any pool list around   *)
(* the referenced pool, and any http settings of the virtual server         *)

MaxMembers == 2

Member1 == FullPool.members[1]
Member2 == FullPool.members[2]
\* a member that leaves its weight to the default
Member3 == [id |-> "server-3", name |-> "web3", ip_address |-> "10.0.1.3", port |-> 9090]

MemberVals == {Member1, Member2, Member3}

MemberLists == SeqsUpTo(MemberVals, MaxMembers)

ArtifactPool(members) ==
    [id |-> "p1", name |-> "pool-web", algorithm |-> "round_robin", members |-> members]

OtherPool == [id |-> "p2", name |-> "pool-other", members |-> <<Member3>>]
\* a second pool carrying the referenced id
DuplicatePool == [id |-> "p1", name |-> "pool-dup", members |-> <<>>]

\* the pools list: the referenced pool alone, after another pool, or before or
\* after a pool with the same id
PoolLists(pool) ==
    {<<pool>>, <<OtherPool, pool>>, <<pool, DuplicatePool>>, <<DuplicatePool, pool>>}

\* the http key of the virtual server: absent, or one of these dicts
HttpVals == {<<>>, <<[redirect_http_to_https |-> TRUE]>>,
             <<[redirect_http_to_https |-> FALSE, x_forwarded_for |-> FALSE]>>,
             <<[hsts_enabled |-> TRUE, hsts_max_age |-> 600]>>}

WithHttp(config, http) ==
    [config EXCEPT !.virtual_server = @ @@ Opt("http", http)]

ArtifactConfigs ==
    {WithHttp(MkConfig(Sections, VsFields, "p1", pools, t[1], t[2], t[3], t[4]), http) :
        pools \in UNION {PoolLists(ArtifactPool(members)) : members \in MemberLists},
        http \in HttpVals, t \in TlsFew}

InitArtifact ==
    /\ InitCommon
    /\ cfg \in ArtifactConfigs
    /\ dirExists = FALSE
    /\ file = NoFile
    /\ fs0 = <<dirExists, sslDir, file>>
    /\ NoBuilder
    /\ NoCalls
    /\ NoService

SpecArtifact == InitArtifact /\ [][NextTranslate]_vars

-----------------------------------------------------------------------------
(* The backend API's list_vips endpoint (main.py lines 111-131) over the     *)
(* users of auth.py and the VIP documents of seed_mongo.py.  Of a document   *)
(* the model keeps the fields a query can name.                             *)

\* no translator call is part of the run
NoTranslation ==
    /\ InitCommon
    /\ kind = "NGINX"
    /\ cfg = EmptyDict
    /\ dirExists = FALSE
    /\ file = NoFile
    /\ fs0 = <<dirExists, sslDir, file>>
    /\ NoBuilder
    /\ NoCalls

MOCK_USERS_DB ==
    {[username |-> "admin", role |-> "admin"],
     [username |-> "auditor", role |-> "auditor"],
     [username |-> "user1", role |-> "user"],
     [username |-> "user2", role |-> "user"]}

seed_vips ==
    {[vip_fqdn |-> "vip1", environment |-> "Prod", owner |-> "user1"],
     [vip_fqdn |-> "vip2", environment |-> "UAT", owner |-> "user1"],
     [vip_fqdn |-> "vip3", environment |-> "DEV", owner |-> "user2"],
     [vip_fqdn |-> "vip4", environment |-> "Prod", owner |-> "user2"],
     [vip_fqdn |-> "vip5", environment |-> "Prod", owner |-> "admin"]}

\* the optional query parameters: missing (None), empty, or a value
EnvironmentParams == {None, "", "Prod", "DEV"}
OwnerParams == {None, "", "user1", "user2", "admin"}

\* collection.find(query): the documents that carry every value of the query
find(collection, query) ==
    {doc \in collection : \A k \in DOMAIN query : doc[k] = query[k]}

\* lines 118-127: the query list_vips builds
list_vips_query(current_user, environment, owner) ==
    (IF TruthyId(environment) THEN "environment" :> environment ELSE EmptyDict)
    @@ (IF current_user.role = "user"
        THEN "owner" :> (IF ~TruthyId(owner) THEN current_user.username ELSE owner)
        ELSE IF TruthyId(owner) THEN "owner" :> owner
        ELSE EmptyDict)

\* GET /api/v1/vips by an authenticated user
ListVips ==
    \E current_user \in MOCK_USERS_DB, environment \in EnvironmentParams,
       owner \in OwnerParams :
        /\ list_request' = <<[current_user |-> current_user,
                              environment |-> environment, owner |-> owner]>>
        /\ list_response' =
               <<find(vips_collection, list_vips_query(current_user, environment, owner))>>
        /\ UNCHANGED <<cfg, kind, pc, vips_collection, builderVars, concVars, historyVars,
                       storageVars, ipamVars, deployVars>>

InitApi ==
    /\ NoTranslation
    /\ vips_collection \in SUBSET seed_vips
    /\ list_request = <<>>
    /\ list_response = <<>>
    /\ NoStorage
    /\ NoIpam

SpecApi == InitApi /\ [][ListVips]_vars

-----------------------------------------------------------------------------
(* EnvironmentPromotion.prepare_promotion and LBMigration.prepare_migration *)
(* (mongodb_config_storage.py lines 162-206, 255-289).  A dict is an object *)
(* on the heap; a key of RefKeys holds the address of another dict, so that *)
(* dict.copy(), which copies the top level only, and item assignment are    *)
(* computed as Python does.                                                  *)

RefKeys == {"standard_config", "metadata", "virtual_server"}

Environments == {"DEV", "UAT", "PROD"}
Datacenters == {"LADC", "NYDC"}
LbTypes == {"NGINX", "F5", "AVI"}

VipIds == {"vip1", "vip2"}

\* the standard_config of a stored document: with or without its metadata and
\* virtual_server sections
StoredStandardConfigs(environment, datacenter, lbt) ==
    {Restrict([metadata |-> [schema_version |-> "1.0", environment |-> environment,
                             datacenter |-> datacenter, lb_type |-> lbt],
               virtual_server |-> [id |-> "vs-app", ip_address |-> "10.0.0.1"],
               pools |-> <<>>], secs) :
        secs \in {{"metadata", "virtual_server", "pools"}, {"virtual_server", "pools"},
                  {"metadata", "pools"}}}

\* store_config lines 70-80: the document of a VIP
Documents ==
    UNION {{[vip_id |-> "vip1", standard_config |-> sc, environment |-> e,
             datacenter |-> d, lb_type |-> t] :
                sc \in StoredStandardConfigs(e, d, t)} :
           e \in {"DEV", "UAT"}, d \in Datacenters, t \in {"NGINX", "F5"}}

\* the addresses get_config's result and the copy are allocated at
SourceAddr == 1
StandardAddr == 2
MetadataAddr == 3
VirtualServerAddr == 4
CopyAddr == 5

\* get_config, lines 83-94: find_one builds a new dict tree from the document
Load(doc) ==
    LET sc == doc.standard_config
    IN  (SourceAddr :> [doc EXCEPT !.standard_config = StandardAddr])
        @@ (StandardAddr :>
               [k \in DOMAIN sc |->
                   CASE k = "metadata" -> MetadataAddr
                     [] k = "virtual_server" -> VirtualServerAddr
                     [] OTHER -> sc[k]])
        @@ (IF "metadata" \in DOMAIN sc THEN MetadataAddr :> sc.metadata ELSE EmptyDict)
        @@ (IF "virtual_server" \in DOMAIN sc
            THEN VirtualServerAddr :> sc.virtual_server ELSE EmptyDict)

\* d.copy(): a new dict with the same items, nested dicts shared
Copy(h, addr, new) == (new :> h[addr]) @@ h

\* h[addr][k] = v
SetItem(h, addr, k, v) == [h EXCEPT ![addr] = (k :> v) @@ @]

\* the value of the object at addr, nested dicts followed
RECURSIVE Value(_, _)
Value(h, addr) ==
    [k \in DOMAIN h[addr] |->
        IF k \in RefKeys THEN Value(h, h[addr][k]) ELSE h[addr][k]]

\* prepare_promotion lines 181-193: the heap after the relabelling
promote(h, target_environment, target_datacenter, target_lb_type) ==
    LET h1 == Copy(h, h[SourceAddr].standard_config, CopyAddr)
        promoted_config == h1[CopyAddr]
        h2 == IF "metadata" \in DOMAIN promoted_config
              THEN SetItem(SetItem(SetItem(h1, promoted_config.metadata,
                                           "environment", target_environment),
                                   promoted_config.metadata,
                                   "datacenter", target_datacenter),
                           promoted_config.metadata, "lb_type", target_lb_type)
              ELSE h1
    IN  IF "virtual_server" \in DOMAIN promoted_config
        THEN SetItem(h2, promoted_config.virtual_server, "ip_address", "")
        ELSE h2

\* prepare_migration lines 271-276: the heap after the relabelling
migrate(h, target_lb_type) ==
    LET h1 == Copy(h, h[SourceAddr].standard_config, CopyAddr)
        migrated_config == h1[CopyAddr]
    IN  IF "metadata" \in DOMAIN migrated_config
        THEN SetItem(h1, migrated_config.metadata, "lb_type", target_lb_type)
        ELSE h1

PreparePromotion ==
    \E vip_id \in VipIds, target_environment \in Environments,
       target_datacenter \in Datacenters, target_lb_type \in LbTypes :
        /\ IF vip_id \notin DOMAIN configs
           THEN /\ heap' = EmptyDict
                /\ prepared' = <<[raised |-> TRUE, vip_id |-> vip_id,
                                  error |-> "Configuration for VIP not found"]>>
           ELSE /\ heap' = promote(Load(configs[vip_id]), target_environment,
                                    target_datacenter, target_lb_type)
                /\ prepared' = <<[raised |-> FALSE, vip_id |-> vip_id,
                                  source_config |-> SourceAddr,
                                  promoted_config |-> CopyAddr,
                                  target_environment |-> target_environment,
                                  target_datacenter |-> target_datacenter,
                                  target_lb_type |-> target_lb_type]>>
        /\ UNCHANGED <<cfg, kind, pc, configs, builderVars, concVars, historyVars, apiVars,
                       ipamVars, deployVars>>

PrepareMigration ==
    \E vip_id \in VipIds, target_lb_type \in LbTypes :
        /\ IF vip_id \notin DOMAIN configs
           THEN /\ heap' = EmptyDict
                /\ prepared' = <<[raised |-> TRUE, vip_id |-> vip_id,
                                  error |-> "Configuration for VIP not found"]>>
           ELSE /\ heap' = migrate(Load(configs[vip_id]), target_lb_type)
                /\ prepared' = <<[raised |-> FALSE, vip_id |-> vip_id,
                                  source_config |-> SourceAddr,
                                  migrated_config |-> CopyAddr,
                                  source_lb_type |-> Get(heap'[SourceAddr], "lb_type", None),
                                  target_lb_type |-> target_lb_type]>>
        /\ UNCHANGED <<cfg, kind, pc, configs, builderVars, concVars, historyVars, apiVars,
                       ipamVars, deployVars>>

InitStorage ==
    /\ NoTranslation
    /\ configs \in {EmptyDict} \cup {"vip1" :> doc : doc \in Documents}
    /\ heap = EmptyDict
    /\ prepared = <<>>
    /\ NoApi
    /\ NoIpam

NextStorage == PreparePromotion \/ PrepareMigration

SpecStorage == InitStorage /\ [][NextStorage]_vars

-----------------------------------------------------------------------------
(* The mock IPAM service (src/mock_tcpwave/main.py).  An address is          *)
(* <<subnet, host>>: the subnet whose network holds it and its last octet.   *)
(* An FQDN '<prefix>-<n>.davelab.net' is <<prefix, n>>.  A request that ends *)
(* in an HTTPException leaves the three stores as they are.                  *)

MAX_IPS_PER_SUBNET_POOL == 2

\* two of the three subnets of lines 17-21
KNOWN_SUBNETS == {"LADC-subnet", "NYDC-subnet"}

SubnetInputs == KNOWN_SUBNETS \cup {"no-subnet"}

\* the addresses of a subnet's pool, and one further host of its network
PoolIps(subnet) == {<<subnet, h>> : h \in 1..MAX_IPS_PER_SUBNET_POOL}

IpInputs == UNION {{<<sn, h>> : h \in 1..(MAX_IPS_PER_SUBNET_POOL + 1)} : sn \in KNOWN_SUBNETS}

\* fqdn_prefix of request_ip: missing, or given
PrefixInputs == {None, "my-vip"}

\* the fqdn of reserve_ip and update_fqdn
FqdnInputs == {<<"my-vip", 1>>, <<"app", 7>>}

\* f"vip-mock-{subnet_name.lower().replace('-', '')}"
DefaultPrefix(subnet_name) ==
    CASE subnet_name = "LADC-subnet" -> "vip-mock-ladcsubnet"
      [] subnet_name = "NYDC-subnet" -> "vip-mock-nydcsubnet"

\* potential_ip.split('.')[-1]
LastOctet(ip) == ip[2]

\* ipaddress.ip_address(ip) in KNOWN_SUBNETS[subnet_name]
InNetwork(ip, subnet_name) == ip[1] = subnet_name

\* del d[k]
Del(d, k) == [x \in (DOMAIN d) \ {k} |-> d[x]]

\* d[k] = v
Put(d, k, v) == (k :> v) @@ d

\* lines 144-145, 167-168: the DNS record of fqdn is dropped if it points to ip
DropRecord(dns, fqdn, ip) ==
    IF fqdn \in DOMAIN dns /\ dns[fqdn] = ip THEN Del(dns, fqdn) ELSE dns

\* available -> used
TakeIp(pools, subnet_name, ip) ==
    [pools EXCEPT ![subnet_name] =
        [available |-> @.available \ {ip}, used |-> @.used \cup {ip}]]

\* POST /api/ipam/request_ip, lines 71-92
request_ip ==
    \E subnet_name \in SubnetInputs, fqdn_prefix \in PrefixInputs :
        /\ IF subnet_name \notin KNOWN_SUBNETS
           THEN UNCHANGED ipamVars
           ELSE IF ip_pools[subnet_name].available = {}
           THEN UNCHANGED ipamVars
           ELSE \E potential_ip \in ip_pools[subnet_name].available :
                  LET prefix == IF TruthyId(fqdn_prefix) THEN fqdn_prefix
                                ELSE DefaultPrefix(subnet_name)
                      mock_fqdn == <<prefix, LastOctet(potential_ip)>>
                  IN  /\ ip_pools' = TakeIp(ip_pools, subnet_name, potential_ip)
                      /\ mock_ip_allocations' =
                             Put(mock_ip_allocations, potential_ip,
                                 [fqdn |-> mock_fqdn, subnet |-> subnet_name])
                      /\ mock_dns_records' = Put(mock_dns_records, mock_fqdn, potential_ip)
        /\ UNCHANGED <<cfg, kind, pc, builderVars, concVars, historyVars, apiVars,
                       storageVars, deployVars>>

\* lines 100-119: the checks of reserve_ip; TRUE when it raises
reserve_ip_raises(ip, fqdn, subnet_name) ==
    \/ subnet_name \notin KNOWN_SUBNETS
    \/ /\ ip \notin ip_pools[subnet_name].available
       /\ ip \notin ip_pools[subnet_name].used
       /\ \/ ~InNetwork(ip, subnet_name)
          \/ ip \notin ip_pools[subnet_name].used
    \/ IF ip \in DOMAIN mock_ip_allocations
       THEN mock_ip_allocations[ip].fqdn # fqdn
       ELSE fqdn \in DOMAIN mock_dns_records /\ mock_dns_records[fqdn] # ip

\* POST /api/ipam/reserve_ip, lines 94-127
reserve_ip ==
    \E ip_to_reserve \in IpInputs, fqdn_to_reserve \in FqdnInputs,
       subnet_name \in SubnetInputs :
        /\ IF reserve_ip_raises(ip_to_reserve, fqdn_to_reserve, subnet_name)
           THEN UNCHANGED ipamVars
           ELSE /\ ip_pools' = IF ip_to_reserve \in ip_pools[subnet_name].available
                               THEN TakeIp(ip_pools, subnet_name, ip_to_reserve)
                               ELSE ip_pools
                /\ mock_ip_allocations' =
                       Put(mock_ip_allocations, ip_to_reserve,
                           [fqdn |-> fqdn_to_reserve, subnet |-> subnet_name])
                /\ mock_dns_records' = Put(mock_dns_records, fqdn_to_reserve, ip_to_reserve)
        /\ UNCHANGED <<cfg, kind, pc, builderVars, concVars, historyVars, apiVars,
                       storageVars, deployVars>>

\* POST /api/ipam/release_ip, lines 129-153
release_ip ==
    \E ip_to_release \in IpInputs :
        /\ IF ip_to_release \notin DOMAIN mock_ip_allocations
           THEN UNCHANGED ipamVars
           ELSE LET subnet_name == mock_ip_allocations[ip_to_release].subnet
                    allocated_fqdn == mock_ip_allocations[ip_to_release].fqdn
                IN  /\ mock_ip_allocations' = Del(mock_ip_allocations, ip_to_release)
                    /\ mock_dns_records' =
                           DropRecord(mock_dns_records, allocated_fqdn, ip_to_release)
                    /\ ip_pools' =
                           IF /\ subnet_name \in DOMAIN ip_pools
                              /\ ip_to_release \in ip_pools[subnet_name].used
                           THEN [ip_pools EXCEPT ![subnet_name] =
                                    [available |-> @.available \cup {ip_to_release},
                                     used |-> @.used \ {ip_to_release}]]
                           ELSE ip_pools
        /\ UNCHANGED <<cfg, kind, pc, builderVars, concVars, historyVars, apiVars,
                       storageVars, deployVars>>

\* POST /api/ipam/update_fqdn, lines 155-173
update_fqdn ==
    \E ip_address \in IpInputs, new_fqdn \in FqdnInputs :
        /\ IF ip_address \notin DOMAIN mock_ip_allocations
           THEN UNCHANGED ipamVars
           ELSE IF new_fqdn \in DOMAIN mock_dns_records
                   /\ mock_dns_records[new_fqdn] # ip_address
           THEN UNCHANGED ipamVars
           ELSE LET old_fqdn == mock_ip_allocations[ip_address].fqdn
                IN  /\ mock_ip_allocations' =
                           [mock_ip_allocations EXCEPT ![ip_address].fqdn = new_fqdn]
                    /\ mock_dns_records' =
                           Put(DropRecord(mock_dns_records, old_fqdn, ip_address),
                               new_fqdn, ip_address)
                    /\ UNCHANGED ip_pools
        /\ UNCHANGED <<cfg, kind, pc, builderVars, concVars, historyVars, apiVars,
                       storageVars, deployVars>>

\* lines 24-46: initialize_ip_pools has run, nothing is allocated
InitIpam ==
    /\ NoTranslation
    /\ ip_pools = [sn \in KNOWN_SUBNETS |-> [available |-> PoolIps(sn), used |-> {}]]
    /\ mock_ip_allocations = EmptyDict
    /\ mock_dns_records = EmptyDict
    /\ NoApi
    /\ NoStorage

NextIpam == request_ip \/ reserve_ip \/ release_ip \/ update_fqdn

SpecIpam == InitIpam /\ [][NextIpam]_vars

-----------------------------------------------------------------------------
(* Properties *)

\* what the properties say about a configuration, read off the configuration
\* itself and not through the validator's helpers
HasVs(c) == "virtual_server" \in DOMAIN c

CertsOf(c) == IF "certificates" \in DOMAIN c THEN c["certificates"] ELSE <<>>

\* d[key] is unset (absent, None or '') or is the id of no certificate of c
RefUnsetOrUnresolved(c, d, key) ==
    \/ key \notin DOMAIN d
    \/ d[key] \in {None, ""}
    \/ ~\E i \in 1..Len(CertsOf(c)) :
            "id" \in DOMAIN CertsOf(c)[i] /\ CertsOf(c)[i]["id"] = d[key]

Enabled(vs, key) ==
    key \in DOMAIN vs /\ "enabled" \in DOMAIN vs[key] /\ vs[key]["enabled"]

MissingSections(c) == Sections \ DOMAIN c

MissingVsFields(c) == IF HasVs(c) THEN VsFields \ DOMAIN c["virtual_server"] ELSE {}

\* the id a pool is known by: its id entry, None when it has none
PoolIdOf(pool) == IF "id" \in DOMAIN pool THEN pool["id"] ELSE None

PoolRefUnresolved(c) ==
    /\ MissingSections(c) = {} /\ MissingVsFields(c) = {}
    /\ \A i \in 1..Len(c["pools"]) :
            PoolIdOf(c["pools"][i]) # c["virtual_server"]["pool_id"]

\* sections, fields, a pool and a resolving pool reference: checks (a)-(d) pass
StructureOk(c) ==
    /\ MissingSections(c) = {} /\ MissingVsFields(c) = {}
    /\ Len(c["pools"]) > 0
    /\ ~PoolRefUnresolved(c)

Validated == verr # <<>>

\* C1 (as claimed): whenever ssl.enabled is true and ssl.certificate_id is unset or
\* resolves to no certificate, validation fails, whatever the protocol.
C1_SslCertificateRequiredForAnyProtocol ==
    (/\ Validated /\ HasVs(cfg)
     /\ Enabled(cfg["virtual_server"], "ssl")
     /\ RefUnsetOrUnresolved(cfg, cfg["virtual_server"]["ssl"], "certificate_id"))
    => Head(verr) # NoError

\* C2: the generator runs only after _validate_config returned without error on
\* the configuration; once validation has raised, the generator is not invoked.
C2_GenerateOnlyAfterValidation ==
    (pc = "generate" \/ genCalls > 0) => verr = <<NoError>>

C2_Witness == caller = "deploy" /\ genCalls > 0 /\ verr = <<NoError>>

\* C3 (as claimed): translate_config on a configuration that passed validation
\* returns an artifact and raises nothing.
C3_TranslateNeverRaisesOnValidated ==
    (verr = <<NoError>> /\ pc \in {"done", "raised"})
    => (pc = "done" /\ artifact # <<>>)

\* the errors that name a missing section, a missing field, the empty pool list
\* or the unresolved pool id of configuration c
NamedErrors(c) ==
    {<<"Missing required section", sec>> : sec \in MissingSections(c)}
    \cup {<<"Missing required virtual server field", fld>> : fld \in MissingVsFields(c)}
    \cup (IF "pools" \in DOMAIN c /\ Len(c["pools"]) = 0
          THEN {<<"At least one pool must be defined">>} ELSE {})
    \cup (IF PoolRefUnresolved(c)
          THEN {<<"Referenced pool_id not found in pools", c["virtual_server"]["pool_id"]>>}
          ELSE {})

\* C4: when a section or a virtual-server field is absent, pools is empty or
\* pool_id is the id of no pool, validation fails with an error naming one of
\* these defects of the configuration.
C4_StructuralErrorsNamed ==
    (Validated /\ NamedErrors(cfg) # {}) => Head(verr) \in NamedErrors(cfg)

C4_Witness ==
    /\ Validated /\ PoolRefUnresolved(cfg) /\ Len(cfg["pools"]) > 0
    /\ Head(verr) = <<"Referenced pool_id not found in pools",
                       cfg["virtual_server"]["pool_id"]>>

\* C5: protocol https with ssl.enabled false or absent fails validation with
\* "SSL must be enabled for HTTPS protocol", when checks (a)-(d) pass.
C5_HttpsRequiresSsl ==
    (/\ Validated /\ StructureOk(cfg)
     /\ cfg["virtual_server"]["protocol"] = "https"
     /\ ~Enabled(cfg["virtual_server"], "ssl"))
    => Head(verr) = <<"SSL must be enabled for HTTPS protocol">>

C5_Witness ==
    /\ Validated /\ StructureOk(cfg)
    /\ cfg["virtual_server"]["protocol"] = "https"
    /\ "ssl" \in DOMAIN cfg["virtual_server"]
    /\ ~Enabled(cfg["virtual_server"], "ssl")
    /\ Head(verr) = <<"SSL must be enabled for HTTPS protocol">>

\* C6: with mtls.enabled true, validation fails when mtls.client_ca_cert_id is
\* unset or is the id of no certificate, whatever protocol and ssl.enabled are.
C6_MtlsCaRequired ==
    (/\ Validated /\ HasVs(cfg)
     /\ Enabled(cfg["virtual_server"], "mtls")
     /\ RefUnsetOrUnresolved(cfg, cfg["virtual_server"]["mtls"], "client_ca_cert_id"))
    => Head(verr) # NoError

C6_Witness ==
    /\ Validated /\ StructureOk(cfg)
    /\ cfg["virtual_server"]["protocol"] = "http"
    /\ ~Enabled(cfg["virtual_server"], "ssl")
    /\ Enabled(cfg["virtual_server"], "mtls")
    /\ "client_ca_cert_id" \in DOMAIN cfg["virtual_server"]["mtls"]
    /\ Head(verr) = <<"Referenced client_ca_cert_id not found in certificates",
                       cfg["virtual_server"]["mtls"]["client_ca_cert_id"]>>

\* C7: deploy never lets an exception out: whatever fails, it returns a dict with
\* success, and after a failure success is false and error is present.
C7_DeployNeverPropagates ==
    /\ pc # "propagated"
    /\ (pc = "raised" => caller = "direct")
    /\ (pc = "returned" =>
            /\ result # <<>>
            /\ "success" \in DOMAIN Head(result)
            /\ (failure # "none" =>
                    ~Head(result)["success"] /\ "error" \in DOMAIN Head(result)))

C7_Witness ==
    /\ pc = "returned" /\ failure = "makedirs"
    /\ ~Head(result)["success"] /\ "error" \in DOMAIN Head(result)

\* C8 (as claimed): every result deploy returns after it computed the artifact
\* path contains config_path.
C8_ConfigPathAlwaysReported ==
    (pc = "returned" /\ config_path # <<>>) => "config_path" \in DOMAIN Head(result)

\* C9: when validation fails or the generator raises inside deploy, the file
\* system is as it was before the call.
C9_FailedTranslationLeavesFileSystem ==
    failure \in {"validation", "generation"} => <<dirExists, sslDir, file>> = fs0

C9_Witness ==
    /\ pc = "returned" /\ failure = "validation" /\ caller = "deploy"
    /\ ~dirExists /\ file = NoFile

\* the vendor hook has started and deploy has not yet handed its result back
HookRunning ==
    \/ caller = "avi_hook"
    \/ pc \in {"hook", "nginx_run", "update"}
    \/ (pc = "returned" /\ hookResult # <<>>)

\* C10 (as claimed): from the start of the vendor hook until deploy returns, the
\* file at config_path holds the whole artifact.
C10_ArtifactCompleteDuringHook ==
    HookRunning => file = [exists |-> TRUE, content |-> <<"full", Head(artifact)>>]

\* C12: a failed deploy result contains config_path exactly when the artifact
\* file had been written (the with block of lines 148-149 completed) before
\* the failure, for each of the three translators.
C12_FailedResultTellsArtifact ==
    (pc = "returned" /\ ~Head(result)["success"]) =>
        ("config_path" \in DOMAIN Head(result) <=> written)

C12_Witness ==
    /\ pc = "returned" /\ kind = "NGINX" /\ failure = "hook"
    /\ ~Head(result)["success"]
    /\ "config_path" \notin DOMAIN Head(hookResult)
    /\ "config_path" \in DOMAIN Head(result)
    /\ written

-----------------------------------------------------------------------------
(* Concurrent deploy calls *)

BothReturned == \A p \in Callers : calls[p].pc = "returned"

\* C11: once two concurrent deploy calls on the same config_path have both
\* returned, the file holds exactly the complete artifact of one of them,
\* never a mixture of the two.
C11_LastWriteWins ==
    (calls # <<>> /\ BothReturned) =>
        \E p \in Callers : shared_file = calls[p].text

-----------------------------------------------------------------------------
(* The selector and the IR builder *)

\* get_translator has returned or raised
Selected == pc \in {"selected", "unsupported"}

\* create_standard_config has returned cfg
Built == pc \in {"select", "selected", "unsupported"}

\* C13: get_translator returns the NGINX, F5 or AVI translator for exactly the
\* labels 'NGINX', 'F5' and 'AVI'; for every other label, other letter case
\* and the empty string included, it raises and constructs no translator.
C13_SelectorExactLabels ==
    Selected =>
        /\ (lb_type = "NGINX" => pc = "selected" /\ kind = "NGINX")
        /\ (lb_type = "F5" => pc = "selected" /\ kind = "F5")
        /\ (lb_type = "AVI" => pc = "selected" /\ kind = "AVI")
        /\ (lb_type \notin {"NGINX", "F5", "AVI"} => pc = "unsupported" /\ kind = "none")

C13_Witness == pc = "unsupported" /\ lb_type = "nginx" /\ kind = "none"

\* C14 (as claimed): every built configuration has its protocol in
\* {http, https, tcp, udp} and its pool's algorithm in the algorithm
\* enumeration, an unrecognized lb_method having become round_robin.
C14_ClosedVocabulary ==
    Built =>
        /\ cfg.virtual_server.protocol \in LBProtocol
        /\ cfg.pools[1].algorithm \in LBAlgorithm
        /\ (Get(vip_config, "lb_method", "round_robin")
                \notin LBAlgorithm \cup {"round-robin", "least_conn"}
            => cfg.pools[1].algorithm = "round_robin")

\* the configuration built from the same arguments with another FQDN
BuiltFor(fqdn) ==
    create_standard_config(("vip_fqdn" :> fqdn) @@ vip_config, servers,
                           [lb_type |-> lb_type])

\* C15 (as claimed): for any two distinct FQDNs the derived pool ids differ,
\* the virtual-server ids differ and the certificate ids differ.
C15_IdentifiersCollisionFree ==
    Built =>
        \A f \in Fqdns :
            f # Get(vip_config, "vip_fqdn", <<>>) =>
                /\ BuiltFor(f).pools[1].id # cfg.pools[1].id
                /\ BuiltFor(f).virtual_server.id # cfg.virtual_server.id
                /\ BuiltFor(f).virtual_server.ssl.certificate_id
                       # cfg.virtual_server.ssl.certificate_id

\* a certificate entry of the server shape (no content) with this id
HasServerCert(certs, id) ==
    \E i \in 1..Len(certs) : "content" \notin DOMAIN certs[i] /\ certs[i].id = id

\* a certificate entry of the CA shape (with content) with this id
HasCaCert(certs, id) ==
    \E i \in 1..Len(certs) : "content" \in DOMAIN certs[i] /\ certs[i].id = id

\* C16: a built configuration lists a server certificate with id
\* ssl.certificate_id exactly when ssl.enabled, which is exactly when the
\* protocol is https, and a CA certificate with id mtls.client_ca_cert_id
\* exactly when mtls.enabled; the CA entry's content is never empty and is the
\* placeholder when no CA content was supplied.
C16_CertificatesMatchTls ==
    Built =>
        LET vs == cfg.virtual_server
            certs == cfg.certificates
        IN  /\ HasServerCert(certs, vs.ssl.certificate_id) <=> vs.ssl.enabled
            /\ vs.ssl.enabled <=> vs.protocol = "https"
            /\ HasCaCert(certs, vs.mtls.client_ca_cert_id) <=> vs.mtls.enabled
            /\ Len(certs) = (IF vs.ssl.enabled THEN 1 ELSE 0)
                            + (IF vs.mtls.enabled THEN 1 ELSE 0)
            /\ \A i \in 1..Len(certs) :
                  "content" \in DOMAIN certs[i] =>
                      /\ certs[i].content # ""
                      /\ (Get(vip_config, "client_ca_cert", "") = ""
                              => certs[i].content = "# Placeholder for CA certificate")

C16_Witness ==
    /\ Built
    /\ "client_ca_cert" \in DOMAIN vip_config /\ vip_config.client_ca_cert = ""
    /\ cfg.virtual_server.mtls.enabled
    /\ cfg.virtual_server.protocol = "https"
    /\ Len(cfg.certificates) = 2

\* C17: the pool has one member per input server, in input order; member i
\* has server i's ip and port, the server's weight or 1 when it has none, and
\* monitor http.
C17_OneMemberPerServer ==
    Built =>
        LET members == cfg.pools[1].members
        IN  /\ Len(members) = Len(servers)
            /\ \A i \in 1..Len(servers) :
                  /\ members[i].ip_address = servers[i].ip
                  /\ members[i].port = servers[i].server_port
                  /\ members[i].weight =
                         (IF "weight" \in DOMAIN servers[i] THEN servers[i].weight ELSE 1)
                  /\ members[i].monitor = "http"

C17_Witness ==
    /\ Built
    /\ Len(servers) = 2
    /\ servers[1].ip # servers[2].ip
    /\ "weight" \notin DOMAIN servers[1]
    /\ cfg.pools[1].members[1].weight = 1
    /\ cfg.pools[1].members[2].ip_address = servers[2].ip

-----------------------------------------------------------------------------
(* The mapping tables *)

\* translate_config has returned the artifact
Translated == pc = "done" /\ artifact # <<>>

\* the pool the virtual server refers to, its algorithm and persistence type
\* as the design's tables index them
ThePool == cfg.pools[1]
AlgorithmOf(pool) == IF "algorithm" \in DOMAIN pool THEN pool.algorithm ELSE "round_robin"
PersistenceTypeOf(pool) ==
    IF "persistence" \in DOMAIN pool /\ "type" \in DOMAIN pool.persistence
    THEN pool.persistence.type ELSE "none"

\* the balancing directives among the lines of an NGINX artifact
BalancingDirectives(lines) ==
    {lines[i].d : i \in {j \in 1..Len(lines) : lines[j].d \in {"least_conn", "ip_hash"}}}

\* the table of native algorithms: Target A (directives), B and C
TableA(algorithm) ==
    CASE algorithm = "least_connections" -> {"least_conn"}
      [] algorithm = "ip_hash"           -> {"ip_hash"}
      [] OTHER -> {}

TableB(algorithm) ==
    CASE algorithm = "least_connections"    -> "least-connections-member"
      [] algorithm = "ip_hash"              -> "ip-hash"
      [] algorithm = "weighted_round_robin" -> "weighted-round-robin"
      [] algorithm = "fastest_response"     -> "fastest-app-response"
      [] OTHER -> "round-robin"

TableC(algorithm) ==
    CASE algorithm = "least_connections" -> "LB_ALGORITHM_LEAST_CONNECTIONS"
      [] algorithm = "ip_hash"           -> "LB_ALGORITHM_CONSISTENT_HASH"
      [] algorithm = "least_requests"    -> "LB_ALGORITHM_FEWEST_SERVERS"
      [] algorithm = "fastest_response"  -> "LB_ALGORITHM_FASTEST_RESPONSE"
      [] OTHER -> "LB_ALGORITHM_ROUND_ROBIN"

\* C18: for every algorithm value of the referenced pool, enumerated or not,
\* each translator emits the native algorithm of the table, an algorithm
\* outside the enumeration giving the vendor's round-robin and never an error.
C18_AlgorithmTable ==
    /\ (cfg \in MappingConfigs => pc # "raised")
    /\ (cfg \in MappingConfigs /\ Translated =>
            CASE kind = "NGINX" ->
                     BalancingDirectives(Head(artifact)) = TableA(AlgorithmOf(ThePool))
              [] kind = "F5" ->
                     Head(artifact).pools[1].load_balancing_mode
                         = TableB(AlgorithmOf(ThePool))
              [] kind = "AVI" ->
                     Head(artifact).pools[1].lb_algorithm = TableC(AlgorithmOf(ThePool)))

C18_Witness ==
    /\ cfg \in MappingConfigs /\ Translated /\ kind = "AVI"
    /\ "algorithm" \in DOMAIN ThePool /\ ThePool.algorithm = "random"
    /\ Head(artifact).pools[1].lb_algorithm = "LB_ALGORITHM_ROUND_ROBIN"

\* C19 (as claimed): when the pool's persistence type is source_ip, the NGINX
\* artifact's upstream block contains ip_hash, whatever the algorithm.
C19_NginxSourceIpIsIpHash ==
    (cfg \in MappingConfigs /\ Translated /\ kind = "NGINX"
        /\ PersistenceTypeOf(ThePool) = "source_ip")
    => "ip_hash" \in BalancingDirectives(Head(artifact))

\* the table of native persistence types: Target B and C
PersistenceTableB(persistence_type) ==
    CASE persistence_type = "source_ip"      -> "source_addr"
      [] persistence_type = "cookie"         -> "cookie"
      [] persistence_type = "app_cookie"     -> "app_cookie"
      [] persistence_type = "http_header"    -> "hash"
      [] persistence_type = "tls_session_id" -> "ssl"
      [] persistence_type = "custom"         -> "universal"

PersistenceTableC(persistence_type) ==
    CASE persistence_type = "source_ip"      -> "PERSISTENCE_TYPE_CLIENT_IP_ADDRESS"
      [] persistence_type = "cookie"         -> "PERSISTENCE_TYPE_HTTP_COOKIE"
      [] persistence_type = "app_cookie"     -> "PERSISTENCE_TYPE_APP_COOKIE"
      [] persistence_type = "http_header"    -> "PERSISTENCE_TYPE_CUSTOM_HTTP_HEADER"
      [] persistence_type = "tls_session_id" -> "PERSISTENCE_TYPE_TLS"
      [] persistence_type = "custom"         -> "PERSISTENCE_TYPE_CUSTOM_SERVER"

\* C20: for every enumerated persistence type other than none the F5 and AVI
\* pool carries a persistence block whose type is the table's; for type none,
\* or persistence absent, it carries none.
C20_PersistenceTable ==
    (cfg \in MappingConfigs /\ Translated /\ kind \in {"F5", "AVI"}) =>
        LET ptype == PersistenceTypeOf(ThePool)
            out == Head(artifact).pools[1]
            key == IF kind = "F5" THEN "persistence" ELSE "persistence_profile"
        IN  /\ (ptype \in PersistenceType \ {"none"} =>
                    /\ key \in DOMAIN out
                    /\ out[key].type = (IF kind = "F5" THEN PersistenceTableB(ptype)
                                        ELSE PersistenceTableC(ptype)))
            /\ (ptype = "none" => key \notin DOMAIN out)

C20_Witness ==
    /\ cfg \in MappingConfigs /\ Translated /\ kind = "F5"
    /\ PersistenceTypeOf(ThePool) = "http_header"
    /\ Head(artifact).pools[1].persistence.type = "hash"

-----------------------------------------------------------------------------
(* The builder's output against validation *)

\* The builder section spells an id as a sequence of characters, validation
\* takes it as one string: Atom gives each such sequence its own string, and
\* gives the empty string for the empty sequence.
Atom(chars) == IF chars = <<>> THEN "" ELSE ToString(chars)

AtomIds(xs) == [i \in 1..Len(xs) |-> [xs[i] EXCEPT !.id = Atom(xs[i].id)]]

\* the configuration the builder returned, as _validate_config takes it
BuiltConfig ==
    [cfg EXCEPT !.virtual_server.pool_id = Atom(cfg.virtual_server.pool_id),
                !.virtual_server.ssl.certificate_id =
                    Atom(cfg.virtual_server.ssl.certificate_id),
                !.virtual_server.mtls.client_ca_cert_id =
                    Atom(cfg.virtual_server.mtls.client_ca_cert_id),
                !.pools = AtomIds(cfg.pools),
                !.certificates = AtomIds(cfg.certificates)]

\* C26: every configuration create_standard_config returns passes
\* _validate_config, for every VIP intent (any protocol, any mtls_enabled,
\* empty or missing FQDN, missing CA content), every server list and every
\* placement decision.
C26_BuiltConfigValidates == Built => _validate_config(BuiltConfig) = NoError

\* built for a VIP without FQDN, with mTLS enabled and without CA content
C26_Witness ==
    /\ Built
    /\ "vip_fqdn" \notin DOMAIN vip_config
    /\ "client_ca_cert" \notin DOMAIN vip_config
    /\ cfg.virtual_server.mtls.enabled
    /\ cfg.virtual_server.protocol = "https"
    /\ Len(cfg.certificates) = 2
    /\ _validate_config(BuiltConfig) = NoError

-----------------------------------------------------------------------------
(* The artifact's members, pool and fixed structure *)

\* the pool the virtual server references: the first one carrying its pool_id
ReferencedPool == Head(_get_pool_by_id(cfg.pools, cfg.virtual_server.pool_id))

MembersOf(pool) == Get(pool, "members", <<>>)

\* the server lines of an NGINX artifact, in the order of the text
ServerLines(lines) == SelectSeq(lines, LAMBDA l : l.d = "server")

WeightOf(member) == IF "weight" \in DOMAIN member THEN member.weight ELSE 1

\* the member entries of the artifact as <<address, port, weight>>, in order
ArtifactMembers ==
    LET a == Head(artifact)
    IN  CASE kind = "NGINX" ->
               [i \in 1..Len(ServerLines(a)) |->
                   <<ServerLines(a)[i].addr, ServerLines(a)[i].port,
                     ServerLines(a)[i].weight>>]
          [] kind = "F5" ->
               [i \in 1..Len(a.pools[1].members) |->
                   <<a.pools[1].members[i].address, a.pools[1].members[i].port,
                     a.pools[1].members[i].weight>>]
          [] kind = "AVI" ->
               [i \in 1..Len(a.pools[1].servers) |->
                   <<a.pools[1].servers[i].ip.addr, a.pools[1].servers[i].port,
                     a.pools[1].servers[i].ratio>>]

\* C21: the artifact lists exactly the members of the referenced pool, one
\* entry per member and in the pool's order, each with that member's address,
\* port and weight (weight= in NGINX, weight in F5, ratio in AVI).
C21_MembersInOrder ==
    Translated =>
        ArtifactMembers =
            [i \in 1..Len(MembersOf(ReferencedPool)) |->
                <<MembersOf(ReferencedPool)[i].ip_address,
                  MembersOf(ReferencedPool)[i].port,
                  WeightOf(MembersOf(ReferencedPool)[i])>>]

C21_Witness ==
    /\ Translated
    /\ kind = "AVI"
    /\ Len(cfg.pools) = 2
    /\ MembersOf(ReferencedPool) = <<Member2, Member1>>
    /\ ArtifactMembers = <<<<"10.0.1.2", 8080, 2>>, <<"10.0.1.1", 8080, 1>>>>


\* the first pool of the configuration whose id is virtual_server.pool_id
FirstPoolWithId ==
    LET pid == cfg.virtual_server.pool_id
        i == CHOOSE n \in 1..Len(cfg.pools) :
                 /\ Get(cfg.pools[n], "id", None) = pid
                 /\ \A m \in 1..(n - 1) : Get(cfg.pools[m], "id", None) # pid
    IN  cfg.pools[i]

UpstreamLines(lines) == SelectSeq(lines, LAMBDA l : l.d = "upstream")

ProxyPassLines(lines) == SelectSeq(lines, LAMBDA l : l.d = "proxy_pass")

\* C27: every artifact holds exactly one pool, the virtual server's pool
\* reference names it, and it is the first pool of the configuration whose id
\* equals virtual_server.pool_id, also when several pools carry that id.
C27_OnePoolReferenced ==
    Translated =>
        LET a == Head(artifact)
        IN  CASE kind = "NGINX" ->
                   /\ Len(UpstreamLines(a)) = 1
                   /\ UpstreamLines(a)[1].name = Get(FirstPoolWithId, "name", "backend")
                   /\ \A i \in 1..Len(ProxyPassLines(a)) :
                          ProxyPassLines(a)[i].name = UpstreamLines(a)[1].name
              [] kind = "F5" ->
                   /\ Len(a.pools) = 1
                   /\ Len(a.virtualServers) = 1
                   /\ a.virtualServers[1].pool = a.pools[1].name
                   /\ a.pools[1].name =
                          DashToUnderscore(Get(FirstPoolWithId, "name", "pool"))
              [] kind = "AVI" ->
                   /\ Len(a.pools) = 1
                   /\ Len(a.virtual_services) = 1
                   /\ a.virtual_services[1].pool_ref = a.pools[1].name
                   /\ a.pools[1].name = Get(FirstPoolWithId, "name", "pool")

\* the pool list holds two pools of the referenced id, and the artifact's pool
\* is the first of them
C27_Witness ==
    /\ Translated
    /\ kind = "F5"
    /\ Len(cfg.pools) = 2
    /\ cfg.pools[1].id = cfg.pools[2].id
    /\ cfg.pools[1] = DuplicatePool
    /\ Head(artifact).pools[1].name = "pool_dup"
    /\ Head(artifact).virtualServers[1].pool = "pool_dup"

\* the mtls settings of the configuration, {} when absent
MtlsOf(c) == Get(c.virtual_server, "mtls", EmptyDict)

\* C22: for a validated configuration with mtls.enabled true and
\* client_auth_type required, the F5 virtual server has TLS settings holding a
\* client CA reference and a verify_depth equal to the configuration's.
C22_F5MtlsSettings ==
    (/\ Translated
     /\ kind = "F5"
     /\ Get(MtlsOf(cfg), "enabled", FALSE)
     /\ Get(MtlsOf(cfg), "client_auth_type", "none") = "required")
    => LET vs == Head(artifact).virtualServers[1]
       IN  /\ "ssl" \in DOMAIN vs
           /\ "ca_file" \in DOMAIN vs.ssl
           /\ "verify_depth" \in DOMAIN vs.ssl
           /\ vs.ssl.verify_depth = Get(MtlsOf(cfg), "verify_depth", 1)

\* the directives an NGINX artifact consists of
Directives(lines) == {lines[i].d : i \in 1..Len(lines)}

ListensWithSsl(lines) == \E i \in 1..Len(lines) : lines[i].d = "listen" /\ lines[i].ssl

\* C25: every NGINX artifact of a validated configuration has an upstream
\* block and a server block with a location block holding proxy_pass; when the
\* server listens with ssl it also has ssl_certificate, ssl_certificate_key and
\* ssl_protocols.
C25_NginxFixedStructure ==
    (Translated /\ kind = "NGINX") =>
        /\ {"upstream", "server {", "location /", "proxy_pass"}
               \subseteq Directives(Head(artifact))
        /\ ListensWithSsl(Head(artifact)) =>
               {"ssl_certificate", "ssl_certificate_key", "ssl_protocols"}
                   \subseteq Directives(Head(artifact))

-----------------------------------------------------------------------------
(* The configuration and the translator object across calls *)

-----------------------------------------------------------------------------
(* The services around the translators *)

\* C28: list_vips returns to a caller of role user only VIPs owned by that
\* caller, whatever owner parameter the caller passes; only admin and auditor
\* callers can list another owner's VIPs.
C28_UserListsOwnVipsOnly ==
    (list_response # <<>> /\ Head(list_request).current_user.role = "user") =>
        \A vip \in Head(list_response) :
            vip.owner = Head(list_request).current_user.username

\* the standard configuration of the source_config object that was returned
ReturnedSource == Value(heap, Head(prepared).source_config).standard_config

\* the standard configuration of the source as the storage holds it
StoredSource == configs[Head(prepared).vip_id].standard_config

\* C29: prepare_promotion and prepare_migration work on a copy: the
\* source_config they return still has the source's metadata.environment,
\* metadata.datacenter, metadata.lb_type and virtual_server.ip_address.
C29_SourceConfigKept ==
    (prepared # <<>> /\ ~Head(prepared).raised) =>
        /\ "metadata" \in DOMAIN StoredSource =>
               /\ ReturnedSource.metadata.environment = StoredSource.metadata.environment
               /\ ReturnedSource.metadata.datacenter = StoredSource.metadata.datacenter
               /\ ReturnedSource.metadata.lb_type = StoredSource.metadata.lb_type
        /\ "virtual_server" \in DOMAIN StoredSource =>
               ReturnedSource.virtual_server.ip_address =
                   StoredSource.virtual_server.ip_address

\* C30: in the mock IPAM, after any sequence of request_ip, reserve_ip,
\* release_ip and update_fqdn calls, allocations and DNS records agree one to
\* one: every allocated IP's FQDN resolves to that IP, no two allocated IPs
\* share an FQDN, and every DNS record points to an IP allocated with it.
C30_AllocationsMatchDns ==
    /\ \A ip \in DOMAIN mock_ip_allocations :
           /\ mock_ip_allocations[ip].fqdn \in DOMAIN mock_dns_records
           /\ mock_dns_records[mock_ip_allocations[ip].fqdn] = ip
    /\ \A ip1, ip2 \in DOMAIN mock_ip_allocations :
           mock_ip_allocations[ip1].fqdn = mock_ip_allocations[ip2].fqdn => ip1 = ip2
    /\ \A fqdn \in DOMAIN mock_dns_records :
           /\ mock_dns_records[fqdn] \in DOMAIN mock_ip_allocations
           /\ mock_ip_allocations[mock_dns_records[fqdn]].fqdn = fqdn

====
